---------------------------- MODULE Spec2Model ----------------------------
(***************************************************************************)
(* A model of the employee-task matching and availability engine of        *)
(* AllocAIte (backend/processing).                                         *)
(*                                                                         *)
(* Numbers.  The program computes with Python floats.  The model computes  *)
(* with exact rationals, kept as integer numerator / denominator pairs, so *)
(* that no statement below rests on a floating-point rounding accident.    *)
(* Hours, days and years are integers (years in tenths of a year).         *)
(*                                                                         *)
(* SQL NULL / Python None is the empty tuple <<>>, a present value v of a  *)
(* nullable column is the 1-tuple <<v>>.                                   *)
(***************************************************************************)
EXTENDS Integers, Sequences, FiniteSets, Bags, TLC

VARIABLES
    assignments,      \* the "Assignments" table: a bag of rows
    uploadEmployees,  \* employee ids created by process_upload
    userSettings,     \* the "UserSettings" row of the manager
    request,          \* the arguments of the pure-function call being applied
    response,         \* what the last handler returned (None: nothing pending)
    assignmentHistory,\* the "AssignmentHistory" table: rows in history_id order
    DEFAULT_MODEL,    \* the module global _DEFAULT_MODEL of nlp/task_matching.py
    instantiated,     \* how many SentenceTransformer objects were constructed
    threads           \* each worker thread's position and local values

vars == <<assignments, uploadEmployees, userSettings, request, response,
          assignmentHistory, DEFAULT_MODEL, instantiated, threads>>

--------------------------------------------------------------------------
(* Bounds and input domains *)

MaxDay == 3
MaxAssignments == 2

Days == 1..MaxDay

NULL == <<>>
Val(x) == x[1]

None == [op |-> "none"]

\* the manager has no row in "UserSettings"
NoSettings == [row |-> "none"]

\* employee 1 belongs to the manager (Employees.user_id = manager);
\* employee 2 is the id the next roster upload will create.
ManagerEmployees == {1}
UploadEmployeeIds == {2}
EmployeeIds == ManagerEmployees \cup UploadEmployeeIds

\* (Total Hours, Remaining Hours) cells of an uploaded sheet: both negative,
\* both zero, remaining zero, remaining < total, remaining > total.
NumericHourCells == {<< <<0 - 8>>, <<0 - 8>> >>, << <<0>>, <<0>> >>, << <<16>>, <<0>> >>,
                     << <<16>>, <<1>> >>, << <<1>>, <<4>> >>}
\* a blank cell (pandas NaN) is NULL here
HourCells == NumericHourCells \cup {<<NULL, NULL>>}

Titles == {"task", "none"}

--------------------------------------------------------------------------
(* Arithmetic helpers *)

Min(a, b) == IF a <= b THEN a ELSE b
Max(a, b) == IF a >= b THEN a ELSE b

RECURSIVE Gcd(_, _)
Gcd(a, b) == IF b = 0 THEN a ELSE Gcd(b, a % b)

Lcm(a, b) == (a * b) \div Gcd(a, b)

\* Python round(x, 1) on x = n/d, as tenths: round(10n/d) to the nearest
\* integer, ties to even.
RoundTenths(n, d) ==
    LET q == (10 * n) \div d
        r == (10 * n) % d
    IN  IF 2 * r < d THEN q
        ELSE IF 2 * r > d THEN q + 1
        ELSE IF q % 2 = 0 THEN q ELSE q + 1

--------------------------------------------------------------------------
(* Availability calculator *)

HoursPerDay == 8

\* float(x or 0)
FloatOrZero(x) == IF x = NULL THEN 0 ELSE Val(x)

\* the overlap test without its employee_id condition: a query that reads the
\* assignments of every employee (C2 tells the two apart)
OverlapTestAnyEmployee(r, employee_id, window_start, window_end) ==
    /\ r.start_date <= window_end
    /\ r.end_date >= window_start

\* WHERE employee_id = %s AND start_date <= window_end AND end_date >= window_start
OverlapTest(r, employee_id, window_start, window_end) ==
    /\ r.employee_id = <<employee_id>>
    /\ r.start_date <= window_end
    /\ r.end_date >= window_start

OverlappingRows(rows, employee_id, window_start, window_end) ==
    LET S == {r \in DOMAIN rows : OverlapTest(r, employee_id, window_start, window_end)}
    IN  [r \in S |-> rows[r]]

assignment_days(r) == r.end_date - r.start_date + 1

overlap_days(r, window_start, window_end) ==
    Min(r.end_date, window_end) - Max(r.start_date, window_start) + 1

\* a reading of the hour fields that prefers total_hours to remaining_hours
\* (C1 tells the two apart)
base_hours_total_first(r) ==
    LET t_hours == FloatOrZero(r.total_hours)
        r_hours == FloatOrZero(r.remaining_hours)
        base == IF t_hours > 0 THEN t_hours ELSE r_hours
    IN  IF base <= 0 THEN assignment_days(r) * HoursPerDay ELSE base

\* base_hours of one row: remaining if > 0, else total, else 8 hours a day
base_hours(r) ==
    LET t_hours == FloatOrZero(r.total_hours)
        r_hours == FloatOrZero(r.remaining_hours)
        base == IF r_hours > 0 THEN r_hours ELSE t_hours
    IN  IF base <= 0 THEN assignment_days(r) * HoursPerDay ELSE base

RECURSIVE LcmDays(_)
LcmDays(S) ==
    IF S = {} THEN 1
    ELSE LET r == CHOOSE x \in S : TRUE
         IN  Lcm(IF assignment_days(r) <= 0 THEN 1 ELSE assignment_days(r), LcmDays(S \ {r}))

\* a common denominator of the daily rates of the rows
RateScale(rows) == LcmDays(DOMAIN rows)

\* the loop's accumulator remaining_hours, times scale:
\* remaining_hours += (base_hours / assignment_days) * window_days,
\* rows with assignment_days <= 0 or window_days <= 0 skipped
RowCommitted(r, window_start, window_end, scale) ==
    IF assignment_days(r) <= 0 \/ overlap_days(r, window_start, window_end) <= 0
    THEN 0
    ELSE base_hours(r) * overlap_days(r, window_start, window_end)
             * (scale \div assignment_days(r))

RECURSIVE CommittedOver(_, _, _, _, _)
CommittedOver(rows, S, window_start, window_end, scale) ==
    IF S = {} THEN 0
    ELSE LET r == CHOOSE x \in S : TRUE
         IN  rows[r] * RowCommitted(r, window_start, window_end, scale)
                 + CommittedOver(rows, S \ {r}, window_start, window_end, scale)

CommittedScaled(rows, window_start, window_end, scale) ==
    CommittedOver(rows, DOMAIN rows, window_start, window_end, scale)

window_capacity(window_start, window_end) == (window_end - window_start + 1) * HoursPerDay

\* percent = max(0, min(100, (1 - remaining_hours / window_capacity) * 100)) as
\* the rational num / den
PercentOf(rows, window_start, window_end) ==
    LET scale == RateScale(rows)
        den   == window_capacity(window_start, window_end) * scale
        raw   == 100 * (den - CommittedScaled(rows, window_start, window_end, scale))
    IN  [num |-> Max(0, Min(100 * den, raw)), den |-> den]

StatusOf(p) ==
    IF p.num <= 30 * p.den THEN "Busy"
    ELSE IF 31 * p.den <= p.num /\ p.num <= 50 * p.den THEN "Partial"
    ELSE "Available"

\* the returned dict; percent10 is the returned percent in tenths
calculate_availability(table, employee_id, window_start, window_end) ==
    LET rows == OverlappingRows(table, employee_id, window_start, window_end)
    IN  IF DOMAIN rows = {} THEN [status |-> "Available", percent10 |-> 1000]
        ELSE IF window_capacity(window_start, window_end) <= 0
             THEN [status |-> "Busy", percent10 |-> 0]
        ELSE LET p == PercentOf(rows, window_start, window_end)
             IN  [status |-> StatusOf(p), percent10 |-> RoundTenths(p.num, p.den)]

\* the returned ratio, as the rational num / den
calculate_assignment_availability(table, employee_id, start, end) ==
    LET rows == OverlappingRows(table, employee_id, start, end)
    IN  IF DOMAIN rows = {} THEN [num |-> 1, den |-> 1]
        ELSE IF window_capacity(start, end) <= 0 THEN [num |-> 0, den |-> 1]
        ELSE LET p == PercentOf(rows, start, end)
             IN  [num |-> p.num, den |-> 100 * p.den]

--------------------------------------------------------------------------
(* The handlers that write "Assignments" *)

Row(employee_id, title, start_date, end_date, total_hours, remaining_hours) ==
    [employee_id |-> employee_id, title |-> title,
     start_date |-> start_date, end_date |-> end_date,
     total_hours |-> total_hours, remaining_hours |-> remaining_hours]

Room == MaxAssignments - BagCardinality(assignments)

\* create_task_entry(user_id, title, start_date, end_date, employee_id)
CreateTaskEntry(title, start_date, end_date, employee_id) ==
    /\ response = None
    /\ Room >= 1
    /\ IF title = ""
       THEN /\ response' = [op |-> "create_task_entry", status |-> 400]
            /\ UNCHANGED assignments
       ELSE IF start_date > end_date
       THEN /\ response' = [op |-> "create_task_entry", status |-> 400]
            /\ UNCHANGED assignments
       ELSE IF employee_id # NULL /\ Val(employee_id) \notin ManagerEmployees
       THEN /\ response' = [op |-> "create_task_entry", status |-> 404]
            /\ UNCHANGED assignments
       ELSE LET days == end_date - start_date + 1
                total_hours == days * HoursPerDay
            IN  /\ assignments' = assignments (+) SetToBag(
                       {Row(employee_id, title, start_date, end_date,
                            <<total_hours>>, <<total_hours>>)})
                /\ response' = [op |-> "create_task_entry", status |-> 200]
    /\ UNCHANGED <<uploadEmployees, userSettings, request, assignmentHistory, DEFAULT_MODEL, instantiated, threads>>

\* assign_recommended_task(user_id, employee_id, title, start_date, end_date)
AssignRecommendedTask(employee_id, title, start, end) ==
    /\ response = None
    /\ Room >= 1
    /\ IF title = ""
       THEN /\ response' = [op |-> "assign_recommended_task", status |-> 400]
            /\ UNCHANGED assignments
       ELSE IF start > end
       THEN /\ response' = [op |-> "assign_recommended_task", status |-> 400]
            /\ UNCHANGED assignments
       ELSE IF employee_id \notin uploadEmployees
       THEN /\ response' = [op |-> "assign_recommended_task", status |-> 400]
            /\ UNCHANGED assignments
       ELSE /\ assignments' = assignments (+) SetToBag(
                   {Row(<<employee_id>>, title, start, end, NULL, NULL)})
            /\ response' = [op |-> "assign_recommended_task", status |-> 200]
    /\ UNCHANGED <<uploadEmployees, userSettings, request, assignmentHistory, DEFAULT_MODEL, instantiated, threads>>

\* update_task_entry(user_id, assignment_id, title, start_date, end_date,
\* employee_id): target is the row assignment_id names, NULL when the user owns
\* no such row; the stored hours are kept unless they are missing
UpdateTaskEntry(target, title, start_date, end_date, employee_id) ==
    /\ response = None
    /\ IF title = ""
       THEN /\ response' = [op |-> "update_task_entry", status |-> 400]
            /\ UNCHANGED assignments
       ELSE IF start_date > end_date
       THEN /\ response' = [op |-> "update_task_entry", status |-> 400]
            /\ UNCHANGED assignments
       ELSE IF target = NULL
       THEN /\ response' = [op |-> "update_task_entry", status |-> 404]
            /\ UNCHANGED assignments
       ELSE IF employee_id # NULL /\ Val(employee_id) \notin ManagerEmployees
       THEN /\ response' = [op |-> "update_task_entry", status |-> 404]
            /\ UNCHANGED assignments
       ELSE LET row == Val(target)
                days == end_date - start_date + 1
                total_hours == IF row.total_hours = NULL
                               THEN <<days * HoursPerDay>> ELSE row.total_hours
                remaining_hours == IF row.remaining_hours = NULL
                                   THEN total_hours ELSE row.remaining_hours
            IN  /\ assignments' = (assignments (-) SetToBag({row})) (+) SetToBag(
                       {Row(employee_id, title, start_date, end_date,
                            total_hours, remaining_hours)})
                /\ response' = [op |-> "update_task_entry", status |-> 200]
    /\ UNCHANGED <<uploadEmployees, userSettings, request, assignmentHistory, DEFAULT_MODEL, instantiated, threads>>

\* a sheet row: title (Current Project), dates, hour cells
SheetRows(HourSet) ==
    [title : Titles, start_date : Days, end_date : Days, hours : HourSet]

Sheets(RowSet, n) == UNION {[1..k -> RowSet] : k \in 0..n}

RECURSIVE SeqToBag(_)
SeqToBag(s) == IF s = <<>> THEN EmptyBag
               ELSE SetToBag({Head(s)}) (+) SeqToBag(Tail(s))

\* _insert_assignments: the row a sheet row is stored as
UploadedRow(employee_id, x) ==
    Row(<<employee_id>>, x.title, x.start_date, x.end_date,
        <<FloatOrZero(x.hours[1])>>, <<FloatOrZero(x.hours[2])>>)

\* process_upload: a roster sheet of one new employee and its assignment rows
\* (placeholder titles are skipped; dates are not compared)
ProcessUpload(sheet) ==
    /\ response = None
    /\ \E employee_id \in UploadEmployeeIds \ uploadEmployees :
          LET kept == SelectSeq(sheet, LAMBDA x : x.title # "none")
              new  == [i \in 1..Len(kept) |-> UploadedRow(employee_id, kept[i])]
          IN  /\ uploadEmployees' = uploadEmployees \cup {employee_id}
              /\ assignments' = assignments (+) SeqToBag(new)
              /\ response' = [op |-> "process_upload", status |-> 200]
    /\ UNCHANGED <<userSettings, request, assignmentHistory, DEFAULT_MODEL, instantiated, threads>>

\* process_assignment_upload: the row a sheet row is stored as
ImportedRow(employee_id, x) ==
    LET total_raw == FloatOrZero(x.hours[1])
        remaining_raw == FloatOrZero(x.hours[2])
        days == x.end_date - x.start_date + 1
        total_hours == IF total_raw = 0 THEN days * HoursPerDay ELSE total_raw
        remaining_hours == IF remaining_raw = 0 /\ total_hours > 0
                           THEN total_hours ELSE remaining_raw
    IN  Row(<<employee_id>>, x.title, x.start_date, x.end_date,
            <<total_hours>>, <<remaining_hours>>)

\* process_assignment_upload: every row is validated before any is stored
ProcessAssignmentUpload(employee_id, sheet) ==
    /\ response = None
    /\ LET bad(x) == \/ x.title = ""
                     \/ x.start_date > x.end_date
                     \/ employee_id \notin ManagerEmployees
       IN  IF \E i \in 1..Len(sheet) : bad(sheet[i])
           THEN /\ response' = [op |-> "process_assignment_upload", status |-> 400]
                /\ UNCHANGED assignments
           ELSE /\ assignments' = assignments (+)
                       SeqToBag([i \in 1..Len(sheet) |-> ImportedRow(employee_id, sheet[i])])
                /\ response' = [op |-> "process_assignment_upload", status |-> 200]
    /\ UNCHANGED <<uploadEmployees, userSettings, request, assignmentHistory, DEFAULT_MODEL, instantiated, threads>>

--------------------------------------------------------------------------
(* The availability queries *)

CalculateAvailability(employee_id, window_start, window_end) ==
    /\ response = None
    /\ response' = [op |-> "calculate_availability", employee_id |-> employee_id,
                    window_start |-> window_start, window_end |-> window_end,
                    result |-> calculate_availability(assignments, employee_id,
                                                      window_start, window_end)]
    /\ UNCHANGED <<assignments, uploadEmployees, userSettings, request, assignmentHistory, DEFAULT_MODEL, instantiated, threads>>

CalculateAssignmentAvailability(employee_id, start, end) ==
    /\ response = None
    /\ response' = [op |-> "calculate_assignment_availability", employee_id |-> employee_id,
                    window_start |-> start, window_end |-> end,
                    result |-> calculate_assignment_availability(assignments, employee_id,
                                                                 start, end)]
    /\ UNCHANGED <<assignments, uploadEmployees, userSettings, request, assignmentHistory, DEFAULT_MODEL, instantiated, threads>>

\* the caller takes the response; the next request can be served
Return ==
    /\ response # None
    /\ response' = None
    /\ UNCHANGED <<assignments, uploadEmployees, userSettings, request, assignmentHistory, DEFAULT_MODEL, instantiated, threads>>

NoRequest == [fn |-> "none"]

\* no archived rows, no embedding model loaded, no worker thread running
Idle ==
    /\ assignmentHistory = <<>>
    /\ DEFAULT_MODEL = NULL
    /\ instantiated = 0
    /\ threads = <<>>

InitAvail ==
    /\ assignments = EmptyBag
    /\ uploadEmployees = {}
    /\ userSettings = NoSettings
    /\ Idle
    /\ request = NoRequest
    /\ response = None

NextAvail ==
    \/ \E t \in {"", "task"}, s \in Days, e \in Days, emp \in {NULL} \cup {<<i>> : i \in EmployeeIds} :
          CreateTaskEntry(t, s, e, emp)
    \/ \E emp \in EmployeeIds, t \in {"", "task"}, s \in Days, e \in Days :
          AssignRecommendedTask(emp, t, s, e)
    \/ \E target \in {NULL} \cup {<<r>> : r \in BagToSet(assignments)},
          t \in {"", "task"}, s \in Days, e \in Days,
          emp \in {NULL} \cup {<<i>> : i \in EmployeeIds} :
          UpdateTaskEntry(target, t, s, e, emp)
    \/ \E sheet \in Sheets(SheetRows(NumericHourCells), Room) : ProcessUpload(sheet)
    \/ \E emp \in EmployeeIds, sheet \in Sheets(SheetRows(HourCells), Room) :
          /\ Len(sheet) >= 1
          /\ ProcessAssignmentUpload(emp, sheet)
    \/ \E emp \in EmployeeIds, s \in Days, e \in Days : CalculateAvailability(emp, s, e)
    \/ \E emp \in EmployeeIds, s \in Days, e \in Days : CalculateAssignmentAvailability(emp, s, e)
    \/ Return

SpecAvail == InitAvail /\ [][NextAvail]_vars

--------------------------------------------------------------------------
(* Availability: what the specification says, in exact arithmetic *)

\* a/b + c/d
FracAdd(x, y) == [num |-> x.num * y.den + y.num * x.den, den |-> x.den * y.den]

\* rate * overlap_days of one assignment: rate = (remaining_hours if > 0, else
\* total_hours if > 0, else 8 * duration_days) / duration_days, overlap_days =
\* min(ends) - max(starts) + 1 clamped at 0.  An assignment whose end precedes
\* its start has no duration and commits nothing.
SpecCommittedOfRow(r, ws, we) ==
    LET duration == r.end_date - r.start_date + 1
        rem   == IF r.remaining_hours = NULL THEN 0 ELSE r.remaining_hours[1]
        tot   == IF r.total_hours = NULL THEN 0 ELSE r.total_hours[1]
        hours == IF rem > 0 THEN rem ELSE IF tot > 0 THEN tot ELSE 8 * duration
        lo    == IF r.start_date >= ws THEN r.start_date ELSE ws
        hi    == IF r.end_date <= we THEN r.end_date ELSE we
        days  == IF hi - lo + 1 > 0 THEN hi - lo + 1 ELSE 0
    IN  IF duration <= 0 THEN [num |-> 0, den |-> 1]
        ELSE [num |-> hours * days, den |-> duration]

RECURSIVE SpecCommitted(_, _, _)
\* committed hours of a bag of assignments over the window, as a fraction
SpecCommitted(B, ws, we) ==
    IF DOMAIN B = {} THEN [num |-> 0, den |-> 1]
    ELSE LET r == CHOOSE x \in DOMAIN B : TRUE
             rest == [x \in DOMAIN B \ {r} |-> B[x]]
             one == SpecCommittedOfRow(r, ws, we)
         IN  FracAdd([num |-> B[r] * one.num, den |-> one.den], SpecCommitted(rest, ws, we))

\* clamp(0, 100, (1 - committed / capacity) * 100), capacity = window_days * 8 > 0
SpecPercent(B, ws, we) ==
    LET c   == SpecCommitted(B, ws, we)
        cap == (we - ws + 1) * 8
        den == cap * c.den
        raw == 100 * (den - c.num)
    IN  [num |-> IF raw < 0 THEN 0 ELSE IF raw > 100 * den THEN 100 * den ELSE raw,
         den |-> den]

\* the employee's assignments that pass the overlap test of the window
EmployeeOverlap(e, ws, we) ==
    LET S == {r \in DOMAIN assignments :
                  r.employee_id = <<e>> /\ r.start_date <= we /\ r.end_date >= ws}
    IN  [r \in S |-> assignments[r]]

IsAvailability == response.op = "calculate_availability"
IsRatio == response.op = "calculate_assignment_availability"
IsQuery == IsAvailability \/ IsRatio

--------------------------------------------------------------------------
(* C1 *)

\* one assignment of 40 hours over days 1..5, query window 1..5
ScenarioTable == SetToBag({Row(<<1>>, "task", 1, 5, <<40>>, <<40>>)})

ScenarioBusy ==
    /\ calculate_availability(ScenarioTable, 1, 1, 5) = [status |-> "Busy", percent10 |-> 0]
    /\ calculate_assignment_availability(ScenarioTable, 1, 1, 5).num = 0

--------------------------------------------------------------------------
(* C2 *)

NoOverlap(e, ws, we) ==
    \A r \in DOMAIN assignments :
        ~(r.employee_id = <<e>> /\ r.start_date <= we /\ r.end_date >= ws)

\* C2: if no assignment of the employee satisfies start <= window_end and
\* end >= window_start, calculate_availability returns 100 / Available and
\* calculate_assignment_availability returns 1.0, for every window.
C2_NoOverlapIsFullyAvailable ==
    (IsQuery /\ NoOverlap(response.employee_id, response.window_start, response.window_end)) =>
        /\ IsAvailability => response.result = [status |-> "Available", percent10 |-> 1000]
        /\ IsRatio => response.result.num = response.result.den

\* the table holds assignments of the queried employee and of another one,
\* none of which passes the overlap test
C2_Witness ==
    /\ IsAvailability
    /\ NoOverlap(response.employee_id, response.window_start, response.window_end)
    /\ \E r \in DOMAIN assignments : r.employee_id = <<response.employee_id>>
    /\ \E r \in DOMAIN assignments :
          /\ r.employee_id # <<response.employee_id>>
          /\ r.start_date <= response.window_end
          /\ r.end_date >= response.window_start
    /\ response.result.percent10 = 1000

--------------------------------------------------------------------------
(* C3 *)

\* C3: the status is consistent with the returned percent: Busy iff
\* percent <= 30, Available iff percent > 50, Partial otherwise.
C3_StatusMatchesBands ==
    IsAvailability =>
        LET p == response.result.percent10
            st == response.result.status
        IN  /\ st = "Busy" <=> p <= 300
            /\ st = "Available" <=> p > 500
            /\ st = "Partial" <=> (p > 300 /\ p <= 500)

\* the same with the bands read on the percent before it is rounded (it lies
\* within 0.05 of the returned one): nothing strictly between 30.05 and 49.95
\* may be Available
C3_NoAvailableInsideBand ==
    IsAvailability =>
        ~(response.result.status = "Available"
            /\ response.result.percent10 > 300 /\ response.result.percent10 < 500)

--------------------------------------------------------------------------
(* C4 *)

\* C4: for any two sets A, B of assignments of the employee over the same window,
\* committed(A) <= committed(B) implies percent(A) >= percent(B).
C4_MonotoneInCommitted ==
    IsQuery =>
        LET e  == response.employee_id
            ws == response.window_start
            we == response.window_end
            mine == [r \in {x \in DOMAIN assignments : x.employee_id = <<e>>} |-> assignments[r]]
        IN  \A A \in SubBag(mine), B \in SubBag(mine) :
               LET cA == SpecCommitted(A, ws, we)
                   cB == SpecCommitted(B, ws, we)
                   pA == calculate_availability(A, e, ws, we).percent10
                   pB == calculate_availability(B, e, ws, we).percent10
                   qA == calculate_assignment_availability(A, e, ws, we)
                   qB == calculate_assignment_availability(B, e, ws, we)
               IN  cA.num * cB.den <= cB.num * cA.den =>
                      /\ pA >= pB
                      /\ qA.num * qB.den >= qB.num * qA.den

\* the same over windows with window_start <= window_end only
C4_MonotoneOverProperWindows ==
    (IsQuery /\ response.window_start <= response.window_end) => C4_MonotoneInCommitted

--------------------------------------------------------------------------
(* C5 *)

\* C5: over a window whose capacity is <= 0 calculate_availability returns
\* 0 / Busy and calculate_assignment_availability 0.0, whatever the
\* assignments, also when none passes the overlap test.
C5_DegenerateWindowIsBusy ==
    (IsQuery /\ (response.window_end - response.window_start + 1) * 8 <= 0) =>
        /\ IsAvailability => response.result = [status |-> "Busy", percent10 |-> 0]
        /\ IsRatio => response.result.num = 0

\* what the code does hold to: 0 / Busy whenever some assignment passes the
\* overlap test
C5_DegenerateWindowWithOverlap ==
    (/\ IsQuery
     /\ (response.window_end - response.window_start + 1) * 8 <= 0
     /\ ~NoOverlap(response.employee_id, response.window_start, response.window_end)) =>
        /\ IsAvailability => response.result = [status |-> "Busy", percent10 |-> 0]
        /\ IsRatio => response.result.num = 0

--------------------------------------------------------------------------
(* Text.  A Python str is a sequence of one-character strings. *)

Whitespace == {" "}

UpperCase == <<"A", "B", "C", "D", "E", "F", "G", "H", "I", "J", "K", "L", "M",
               "N", "O", "P", "Q", "R", "S", "T", "U", "V", "W", "X", "Y", "Z">>
LowerCase == <<"a", "b", "c", "d", "e", "f", "g", "h", "i", "j", "k", "l", "m",
               "n", "o", "p", "q", "r", "s", "t", "u", "v", "w", "x", "y", "z">>

lower_char(c) ==
    IF \E i \in DOMAIN UpperCase : UpperCase[i] = c
    THEN LowerCase[CHOOSE i \in DOMAIN UpperCase : UpperCase[i] = c]
    ELSE c

\* s.lower()
lower(s) == [i \in 1..Len(s) |-> lower_char(s[i])]

RECURSIVE lstrip(_)
lstrip(s) == IF s # <<>> /\ Head(s) \in Whitespace THEN lstrip(Tail(s)) ELSE s

RECURSIVE rstrip(_)
rstrip(s) == IF s # <<>> /\ s[Len(s)] \in Whitespace
             THEN rstrip(SubSeq(s, 1, Len(s) - 1)) ELSE s

\* s.strip()
strip(s) == rstrip(lstrip(s))

\* s.replace(old, new), old and new one character each
replace(s, old, new) == [i \in 1..Len(s) |-> IF s[i] = old THEN new ELSE s[i]]

RECURSIVE split_from(_, _, _)
\* cur: the word being read; acc: the words read so far
split_from(s, cur, acc) ==
    LET closed == IF cur = <<>> THEN acc ELSE Append(acc, cur)
    IN  IF s = <<>> THEN closed
        ELSE IF Head(s) \in Whitespace THEN split_from(Tail(s), <<>>, closed)
        ELSE split_from(Tail(s), Append(cur, Head(s)), acc)

\* s.split(): the maximal runs of non-whitespace characters
split(s) == split_from(s, <<>>, <<>>)

\* sub in s read as equality of the two strings (C6 tells the two apart)
str_equal(sub, s) == sub = s

\* sub in s
str_in(sub, s) ==
    \E i \in 0..(Len(s) - Len(sub)) : SubSeq(s, i + 1, i + Len(sub)) = sub

Range(f) == {f[i] : i \in DOMAIN f}

\* a/b >= c/d, for b, d > 0
FracGeq(x, y) == x.num * y.den >= y.num * x.den
FracEq(x, y) == x.num * y.den = y.num * x.den
FracMax(x, y) == IF FracGeq(x, y) THEN x ELSE y

Zero == [num |-> 0, den |-> 1]

--------------------------------------------------------------------------
(* Skill matching.  Scores are in hundredths; util.cos_sim of the description *)
(* and a label is not computed but drawn: cos maps each normalised label to  *)
(* a similarity.                                                             *)

ExactScore == 100
KeywordScore == 75
DefaultThreshold == 45

\* a tokenisation that splits on whitespace only (C7 tells the two apart)
description_tokens_whitespace_only(description) == Range(split(description))

\* description_tokens = set(description.replace(",", " ").split())
description_tokens(description) == Range(split(replace(description, ",", " ")))

\* the similarity of one label: lines 53-70
skill_sim(description, tokens, normal, cos) ==
    LET toks == split(replace(normal, "/", " "))
        sim  == IF str_in(normal, description) THEN ExactScore
                ELSE IF \E i \in DOMAIN toks : toks[i] # <<>> /\ toks[i] \in tokens
                     THEN KeywordScore
                ELSE 0
    IN  IF sim < KeywordScore THEN Max(sim, cos[normal]) ELSE sim

RECURSIVE skill_loop(_, _, _, _, _, _)
\* for raw_skill in skills: ... matches.append({"label": label, "score": sim})
skill_loop(description, tokens, skills, threshold, cos, matches) ==
    IF skills = <<>> THEN matches
    ELSE LET label == strip(Head(skills))
             sim   == skill_sim(description, tokens, lower(label), cos)
             next  == IF label = <<>> THEN matches
                      ELSE IF sim >= threshold
                           THEN Append(matches, [label |-> label, score |-> sim])
                      ELSE matches
         IN  skill_loop(description, tokens, Tail(skills), threshold, cos, next)

semantic_skill_match(task_description, skills, threshold, cos) ==
    IF skills = <<>> \/ task_description = <<>> THEN <<>>
    ELSE LET description == lower(task_description)
         IN  skill_loop(description, description_tokens(description),
                        skills, threshold, cos, <<>>)

RECURSIVE SumScores(_)
SumScores(matches) ==
    IF matches = <<>> THEN 0 ELSE Head(matches).score + SumScores(Tail(matches))

\* skill_score = avg_skill_sim, leaving coverage out (C8 tells the two apart)
skill_score_average_only(skill_matches, skills) ==
    IF skill_matches # <<>>
    THEN [num |-> SumScores(skill_matches), den |-> 100 * Len(skill_matches)]
    ELSE Zero

\* match_employees, lines 155-167: max(avg_skill_sim, coverage)
skill_score(skill_matches, skills) ==
    LET avg_skill_sim == IF skill_matches # <<>>
                         THEN [num |-> SumScores(skill_matches),
                               den |-> 100 * Len(skill_matches)]
                         ELSE Zero
        coverage == IF skills # <<>>
                    THEN [num |-> Len(skill_matches), den |-> Len(skills)]
                    ELSE Zero
    IN  FracMax(avg_skill_sim, coverage)

--------------------------------------------------------------------------
(* Experience and role scores *)

\* normalize_experience; years in tenths, the result a fraction
normalize_experience(experience, max_experience) ==
    IF max_experience = 0 THEN Zero
    ELSE LET safe_exp == IF experience = NULL THEN 0 ELSE Val(experience)
             q == IF max_experience > 0
                  THEN [num |-> safe_exp, den |-> max_experience]
                  ELSE [num |-> 0 - safe_exp, den |-> 0 - max_experience]
         IN  FracMax(Zero, q)

FullRoleScore == 100
WordRoleScore == 60
LowRoleScore == 30

\* compute_role_match; role is NULL (None) or a str
compute_role_match(task_description, role) ==
    IF role = NULL \/ Val(role) = <<>> THEN 0
    ELSE LET td == lower(task_description)
             role_lower == lower(Val(role))
             words == split(role_lower)
         IN  IF str_in(role_lower, td) THEN FullRoleScore
             ELSE IF \E i \in DOMAIN words : words[i] # <<>> /\ str_in(words[i], td)
                  THEN WordRoleScore
             ELSE LowRoleScore

--------------------------------------------------------------------------
(* The ranking pipeline *)

Employee(employee_id, role, experience, skills) ==
    [employee_id |-> employee_id, role |-> role,
     experience |-> experience, skills |-> skills]

RECURSIVE MaxOf(_)
MaxOf(S) == LET x == CHOOSE y \in S : TRUE
            IN  IF S = {x} THEN x ELSE Max(x, MaxOf(S \ {x}))

\* The loop of match_employees over a non-empty list.  It computes the scores
\* of the first employee and calls build_recommendation_entry with seven
\* arguments where the function takes nine, which raises TypeError: the result
\* records the arguments of that call and the collaborators called so far.  The
\* append, the later employees and the final sorted(...) are not reached.
ranking_loop(task_description, employees, sims, cos, table, start_date, end_date) ==
    LET max_exp == MaxOf({employees[i].experience : i \in DOMAIN employees})
        emp == employees[1]
        skill_matches == semantic_skill_match(task_description, emp.skills,
                                              DefaultThreshold, cos)
    IN  [raised |-> "TypeError",
         call |-> [employee |-> emp,
                   semantic_score |-> sims[1],
                   skill_score |-> skill_score(skill_matches, emp.skills),
                   experience_score |-> normalize_experience(<<emp.experience>>, max_exp),
                   role_score |-> compute_role_match(task_description, emp.role),
                   availability_score |->
                       calculate_assignment_availability(table, emp.employee_id,
                                                         start_date, end_date),
                   matched_skills |-> [i \in DOMAIN skill_matches |->
                                           skill_matches[i].label]],
         calls |-> <<"fetch_employees_by_user", "get_sentence_model", "encode_task",
                     "encode_employees", "cos_sim", "normalize_experience",
                     "compute_role_match", "semantic_skill_match",
                     "calculate_assignment_availability",
                     "build_recommendation_entry">>]

\* a ranking that loads the embedding model before it looks at the list
match_employees_eager(task_description, employees, sims, cos, table, start_date, end_date) ==
    IF employees = <<>>
    THEN [raised |-> "none", returned |-> <<>>,
          calls |-> <<"fetch_employees_by_user", "get_sentence_model">>]
    ELSE ranking_loop(task_description, employees, sims, cos, table, start_date,
                      end_date)

\* match_employees, given the list fetch_employees_by_user loads.  With no
\* employee it returns [] before anything else is called.
match_employees(task_description, employees, sims, cos, table, start_date, end_date) ==
    IF employees = <<>>
    THEN [raised |-> "none", returned |-> <<>>, calls |-> <<"fetch_employees_by_user">>]
    ELSE ranking_loop(task_description, employees, sims, cos, table, start_date,
                      end_date)

\* generate_recommendations(task_description, user_id, start_date, end_date)
generate_recommendations(user_id, task_description, employees, sims, cos, table, start_date, end_date) ==
    IF user_id = NULL
    THEN [raised |-> "RecommendationError", status_code |-> 400,
          message |-> "user_id is required", calls |-> <<>>]
    ELSE match_employees(task_description, employees, sims, cos, table, start_date,
                         end_date)

\* semantic_skill_match(model, task_description, skills, threshold) on the skill
\* list of an employee
SemanticSkillMatch(threshold) ==
    /\ request.fn = "match"
    /\ response = None
    /\ \E i \in DOMAIN request.employees :
          response' = [op |-> "semantic_skill_match",
                       threshold |-> threshold,
                       skills |-> request.employees[i].skills,
                       result |-> semantic_skill_match(request.task_description,
                                                       request.employees[i].skills,
                                                       threshold, request.cos)]
    /\ UNCHANGED <<assignments, uploadEmployees, userSettings, request, assignmentHistory, DEFAULT_MODEL, instantiated, threads>>

MatchEmployees ==
    /\ request.fn = "match"
    /\ request.user_id # NULL
    /\ response = None
    /\ response' = [op |-> "match_employees",
                    result |-> match_employees(request.task_description, request.employees,
                                               request.sims, request.cos, assignments,
                                               request.start_date, request.end_date)]
    /\ UNCHANGED <<assignments, uploadEmployees, userSettings, request, assignmentHistory, DEFAULT_MODEL, instantiated, threads>>

GenerateRecommendations ==
    /\ request.fn = "match"
    /\ response = None
    /\ response' = [op |-> "generate_recommendations",
                    result |-> generate_recommendations(
                        request.user_id, request.task_description, request.employees,
                        request.sims, request.cos, assignments, request.start_date,
                        request.end_date)]
    /\ UNCHANGED <<assignments, uploadEmployees, userSettings, request, assignmentHistory, DEFAULT_MODEL, instantiated, threads>>

ComputeRoleMatch ==
    /\ request.fn = "role"
    /\ response = None
    /\ response' = [op |-> "compute_role_match",
                    result |-> compute_role_match(request.task_description, request.role)]
    /\ UNCHANGED <<assignments, uploadEmployees, userSettings, request, assignmentHistory, DEFAULT_MODEL, instantiated, threads>>

--------------------------------------------------------------------------
(* Inputs of the pure functions, and the specifications that apply them *)

MaxDescLen == 3
MaxLabelLen == 2
MaxSkills == 2
MaxRoleLen == 3
MaxPool == 3

Strings(Chars, n) == UNION {[1..k -> Chars] : k \in 0..n}

DescChars == {"a", "B", " ", ","}
LabelChars == {"B", " ", "/"}
RoleChars == {"a", "B", " "}

Descriptions == Strings(DescChars, MaxDescLen)
Labels == Strings(LabelChars, MaxLabelLen)
SkillLists == UNION {[1..k -> Labels] : k \in 0..MaxSkills}

\* similarities in hundredths: negative, below the default threshold, between
\* the default threshold and the keyword score, above the keyword score
CosValues == {0 - 20, 40, 60, 90}
Thresholds == {DefaultThreshold, 80, 100}
Similarities == {50}

\* years of experience in tenths of a year
ExperienceValues == {0 - 20, 0 - 10, 0, 5, 20}

\* the labels semantic_skill_match embeds
Normals(skills) == {lower(strip(skills[i])) : i \in DOMAIN skills} \ {<<>>}

ScenarioDescription ==
    <<"N", "e", "e", "d", "s", " ", "P", "y", "t", "h", "o", "n", " ", "a", "n", "d",
      " ", "S", "Q", "L", " ", "s", "u", "p", "p", "o", "r", "t">>
Python == <<"P", "y", "t", "h", "o", "n">>
Figma == <<"F", "i", "g", "m", "a">>
ScenarioSkills == <<Python, Figma>>

\* the call match_employees(task_description, user_id, start_date, end_date)
\* with what fetch_employees_by_user and the embedding model give it
MatchRequest(task_description, employees, cos) ==
    [fn |-> "match", user_id |-> <<1>>,
     task_description |-> task_description, employees |-> employees,
     sims |-> [i \in DOMAIN employees |-> CHOOSE v \in Similarities : TRUE],
     cos |-> cos, start_date |-> 1, end_date |-> 1]

\* one employee with the skill list, and a similarity for each of its labels
SkillRequest(d, skills, cos) == MatchRequest(d, <<Employee(1, NULL, 0, skills)>>, cos)

ScenarioRequests ==
    {MatchRequest(ScenarioDescription, <<Employee(1, NULL, 0, ScenarioSkills)>>, c) :
         c \in {f \in [Normals(ScenarioSkills) -> CosValues] :
                    f[lower(Figma)] < DefaultThreshold}}

InitSkill ==
    /\ assignments = EmptyBag
    /\ uploadEmployees = {}
    /\ userSettings = NoSettings
    /\ Idle
    /\ \/ \E d \in Descriptions, skills \in SkillLists :
             \E cos \in [Normals(skills) -> CosValues] :
                request = SkillRequest(d, skills, cos)
       \/ request \in ScenarioRequests
    /\ response = None

NextSkill ==
    \/ \E threshold \in Thresholds : SemanticSkillMatch(threshold)
    \/ MatchEmployees

SpecSkill == InitSkill /\ [][NextSkill]_vars

Pools == UNION {[1..k -> ExperienceValues] : k \in 0..MaxPool}

\* the first employee of a pool has no role, the others have one
ExperienceRequests ==
    {MatchRequest(<<"a">>,
                  [i \in DOMAIN pool |->
                       Employee(i, IF i = 1 THEN NULL ELSE <<<<"B">>>>, pool[i], <<>>)],
                  <<>>) :
         pool \in Pools}

InitExp ==
    /\ assignments = EmptyBag
    /\ uploadEmployees = {}
    /\ userSettings = NoSettings
    /\ Idle
    /\ \E r \in ExperienceRequests, user_id \in {NULL, <<1>>} :
          request = [r EXCEPT !.user_id = user_id]
    /\ response = None

NextExp == MatchEmployees \/ GenerateRecommendations

SpecExp == InitExp /\ [][NextExp]_vars

Roles == {NULL} \cup {<<r>> : r \in Strings(RoleChars, MaxRoleLen)}

RoleRequests ==
    {[fn |-> "role", task_description |-> d, role |-> r] :
         d \in Strings(RoleChars, MaxDescLen), r \in Roles}

InitRole ==
    /\ assignments = EmptyBag
    /\ uploadEmployees = {}
    /\ userSettings = NoSettings
    /\ Idle
    /\ request \in RoleRequests
    /\ response = None

NextRole == ComputeRoleMatch

SpecRole == InitRole /\ [][NextRole]_vars

--------------------------------------------------------------------------
(* Skill matching: what the specification says, read off character positions *)

\* s without its leading and trailing blanks
SpecTrim(s) ==
    LET idx == {i \in 1..Len(s) : s[i] # " "}
    IN  IF idx = {} THEN <<>>
        ELSE SubSeq(s, CHOOSE i \in idx : \A j \in idx : i <= j,
                       CHOOSE i \in idx : \A j \in idx : i >= j)

\* sub occurs verbatim in s
SpecOccursIn(sub, s) ==
    \E off \in 0..Len(s) :
        /\ off + Len(sub) <= Len(s)
        /\ \A k \in 1..Len(sub) : s[off + k] = sub[k]

\* the words of s: its maximal runs of characters that are not separators
SpecWords(s, seps) ==
    {SubSeq(s, i, j) : <<i, j>> \in
        {ij \in (1..Len(s)) \X (1..Len(s)) :
            /\ ij[1] <= ij[2]
            /\ \A k \in ij[1]..ij[2] : s[k] \notin seps
            /\ (ij[1] = 1 \/ s[ij[1] - 1] \in seps)
            /\ (ij[2] = Len(s) \/ s[ij[2] + 1] \in seps)}}

\* the resolved score of a trimmed label, in hundredths: first tier that fires
SpecResolved(label, task_description, cos) ==
    LET normal == lower(label)
        d == lower(task_description)
    IN  IF SpecOccursIn(normal, d) THEN 100
        ELSE IF SpecWords(normal, {"/", " "}) \cap SpecWords(d, {",", " "}) # {} THEN 75
        ELSE IF cos[normal] > 0 THEN cos[normal] ELSE 0

\* the non-blank labels whose resolved score reaches the threshold, in list order
SpecKept(task_description, skills, threshold, cos) ==
    IF task_description = <<>> THEN <<>>
    ELSE LET all == [i \in DOMAIN skills |->
                        [label |-> SpecTrim(skills[i]),
                         score |-> SpecResolved(SpecTrim(skills[i]), task_description, cos)]]
         IN  SelectSeq(all, LAMBDA m : m.label # <<>> /\ m.score >= threshold)

IsSkillMatch == response.op = "semantic_skill_match"
IsRanking == response.op = "match_employees" /\ response.result.raised = "TypeError"

--------------------------------------------------------------------------
(* C6 *)

\* C6: for a non-empty description and a threshold <= 1, every non-blank label
\* whose trimmed, lower-cased form occurs verbatim in the lower-cased
\* description is returned, with score exactly 1.0, whatever its similarity.
C6_ExactLabelScoresOne ==
    (IsSkillMatch /\ request.task_description # <<>> /\ response.threshold <= 100) =>
        \A i \in DOMAIN response.skills :
            LET label == SpecTrim(response.skills[i]) IN
            (label # <<>> /\ SpecOccursIn(lower(label), lower(request.task_description))) =>
                /\ \E j \in DOMAIN response.result : response.result[j].label = label
                /\ \A j \in DOMAIN response.result :
                      response.result[j].label = label => response.result[j].score = 100

\* threshold 1.0; a label written with a capital and a trailing blank that
\* occurs inside a longer word of the description and has a negative
\* similarity is returned with score 1.0
C6_Witness ==
    /\ IsSkillMatch
    /\ response.threshold = 100
    /\ \E i \in DOMAIN response.skills :
          LET raw == response.skills[i]
              label == SpecTrim(raw)
          IN  /\ raw # label
              /\ label # <<>>
              /\ lower(label) # label
              /\ SpecOccursIn(lower(label), lower(request.task_description))
              /\ lower(label) \notin SpecWords(lower(request.task_description), {",", " "})
              /\ request.cos[lower(label)] < 0
              /\ \E j \in DOMAIN response.result :
                    response.result[j] = [label |-> label, score |-> 100]

--------------------------------------------------------------------------
(* C7 *)

\* C7: the result is exactly the non-blank labels whose resolved score is >=
\* threshold, each with that score, which lies in [threshold, 1]: 1.0 on an exact
\* substring match, else 0.75 when a word of the label (split on '/' and blanks)
\* is a whole token of the description, else max(0, similarity); nothing is
\* returned for an empty description or an empty skill list.
C7_ThreeTiers ==
    IsSkillMatch =>
        /\ response.result = SpecKept(request.task_description, response.skills,
                                      response.threshold, request.cos)
        /\ \A j \in DOMAIN response.result :
              /\ response.result[j].score >= response.threshold
              /\ response.result[j].score <= 100
        /\ (request.task_description = <<>> \/ response.skills = <<>>) =>
              response.result = <<>>

\* two labels at the default threshold: one kept at 0.75 by a keyword although
\* its similarity is higher, one dropped because its similarity is negative
C7_Witness ==
    /\ IsSkillMatch
    /\ response.threshold = DefaultThreshold
    /\ Len(response.skills) = 2
    /\ Len(response.result) = 1
    /\ response.result[1].score = 75
    /\ request.cos[lower(response.result[1].label)] = 90
    /\ \E i \in DOMAIN response.skills :
          /\ SpecTrim(response.skills[i]) # <<>>
          /\ request.cos[lower(SpecTrim(response.skills[i]))] < 0
          /\ SpecTrim(response.skills[i]) # response.result[1].label

--------------------------------------------------------------------------
(* C8 *)

RECURSIVE SpecSum(_)
SpecSum(ms) == IF ms = <<>> THEN 0 ELSE ms[1].score + SpecSum(Tail(ms))

\* max(average score of the matched labels, |matched| / |labels|), 0 when
\* nothing matched
SpecSkillScore(task_description, skills, cos) ==
    LET matched == SpecKept(task_description, skills, 45, cos)
        average == [num |-> SpecSum(matched), den |-> 100 * Len(matched)]
        coverage == [num |-> Len(matched), den |-> Len(skills)]
    IN  IF matched = <<>> THEN [num |-> 0, den |-> 1]
        ELSE IF average.num * coverage.den >= coverage.num * average.den THEN average
        ELSE coverage

\* the skill list in the order given by the permutation p of its positions
Reordered(skills, p) == [i \in DOMAIN skills |-> skills[p[i]]]

\* C8: the skill score passed on for an employee is max(average score of the
\* matched labels, coverage), coverage = |matched| / |labels|, 0 when nothing
\* matched; every reordering of the skill list gives the same score; for 'Needs
\* Python and SQL support' and ['Python', 'Figma'] with Figma below threshold,
\* matched = ['Python'] and the score is >= 0.5 = coverage.
C8_SkillScoreIsMaxOfAverageAndCoverage ==
    IsRanking =>
        LET emp == request.employees[1]
            call == response.result.call
        IN  /\ FracEq(call.skill_score,
                      SpecSkillScore(request.task_description, emp.skills, request.cos))
            /\ \A p \in Permutations(DOMAIN emp.skills) :
                  FracEq(match_employees(request.task_description,
                                         <<Employee(emp.employee_id, emp.role, emp.experience,
                                                    Reordered(emp.skills, p))>>,
                                         request.sims, request.cos, assignments,
                                         request.start_date, request.end_date).call.skill_score,
                         call.skill_score)
            /\ (request.task_description = ScenarioDescription /\ emp.skills = ScenarioSkills) =>
                  /\ call.matched_skills = <<Python>>
                  /\ Len(call.matched_skills) * 2 = Len(emp.skills)
                  /\ FracGeq(call.skill_score, [num |-> 1, den |-> 2])

\* two different labels, both matched, one by a keyword and one by its
\* similarity: the coverage 1.0 exceeds the average and is the score
C8_Witness ==
    /\ IsRanking
    /\ LET emp == request.employees[1]
           call == response.result.call
           matched == SpecKept(request.task_description, emp.skills, 45, request.cos)
       IN  /\ Len(emp.skills) = 2
           /\ emp.skills[1] # emp.skills[2]
           /\ Len(matched) = 2
           /\ matched[1].score = 75
           /\ matched[2].score = 60
           /\ call.skill_score.num = call.skill_score.den

\* the scenario of C8 is a state of the model
C8_Scenario ==
    /\ IsRanking
    /\ request.task_description = ScenarioDescription
    /\ request.employees[1].skills = ScenarioSkills
    /\ response.result.call.matched_skills = <<Python>>

--------------------------------------------------------------------------
(* C9 *)

IsRoleMatch == response.op = "compute_role_match"

\* the role as text: a missing role is the empty text
RoleText == IF request.role = NULL THEN <<>> ELSE request.role[1]

\* C9: compute_role_match returns a value in {1.0, 0.6, 0.3}, never 0, also for
\* an empty or missing role: 1.0 exactly when the lower-cased role occurs as a
\* phrase in the lower-cased description; otherwise 0.6 exactly when a
\* whitespace-separated word of the role equals a word of the description;
\* otherwise 0.3.
C9_RoleScoreTiers ==
    IsRoleMatch =>
        LET td == lower(request.task_description)
            rl == lower(RoleText)
            phrase == SpecOccursIn(rl, td)
            word == SpecWords(rl, {" "}) \cap SpecWords(td, {" "}) # {}
        IN  /\ response.result \in {100, 60, 30}
            /\ response.result # 0
            /\ response.result = 100 <=> phrase
            /\ response.result = 60 <=> (~phrase /\ word)
            /\ response.result = 30 <=> (~phrase /\ ~word)

\* the first part alone: the result is never 0
C9_NeverZero == IsRoleMatch => response.result # 0

\* the second part alone, for a role that is not empty
C9_WordTierIsWordEquality ==
    (IsRoleMatch /\ RoleText # <<>>) =>
        LET td == lower(request.task_description)
            rl == lower(RoleText)
        IN  response.result = 60 =>
                SpecWords(rl, {" "}) \cap SpecWords(td, {" "}) # {}

\* what the code holds to: 0 for an empty or missing role, else 1.0 / 0.6 / 0.3
\* with the 0.6 tier testing each word of the role as a substring
C9_RoleScoreAsCoded ==
    IsRoleMatch =>
        LET td == lower(request.task_description)
            rl == lower(RoleText)
            phrase == SpecOccursIn(rl, td)
            part == \E w \in SpecWords(rl, {" "}) : SpecOccursIn(w, td)
        IN  response.result = IF RoleText = <<>> THEN 0
                              ELSE IF phrase THEN 100
                              ELSE IF part THEN 60 ELSE 30

--------------------------------------------------------------------------
(* C10 *)

\* C10: the experience score passed on for an employee is
\* years / max(1, max years of the pool), clamped to >= 0; it lies in [0, 1].
\* Years are in tenths, so 1 year is 10.
C10_ExperienceScore ==
    IsRanking =>
        LET pool == {request.employees[i].experience : i \in DOMAIN request.employees}
            top == CHOOSE y \in pool : \A z \in pool : z <= y
            years == request.employees[1].experience
            denom == IF top > 10 THEN top ELSE 10
            score == response.result.call.experience_score
        IN  /\ score.den > 0
            /\ score.num * denom = (IF years > 0 THEN years ELSE 0) * score.den
            /\ score.num >= 0
            /\ score.num <= score.den

\* the same for pools whose maximum is at least one year and that hold no
\* negative years: there the code agrees with the formula
C10_ExperienceScoreFromOneYear ==
    (/\ IsRanking
     /\ \A i \in DOMAIN request.employees : request.employees[i].experience >= 0
     /\ \E i \in DOMAIN request.employees : request.employees[i].experience >= 10)
        => C10_ExperienceScore

\* the same for pools without negative years: still not what the code does
\* when the maximum is below one year
C10_ExperienceScoreOfNonNegativePools ==
    (IsRanking /\ \A i \in DOMAIN request.employees : request.employees[i].experience >= 0)
        => C10_ExperienceScore

--------------------------------------------------------------------------
(* The aggregator.  Weights are in hundredths; a score is a fraction. *)

\* a profile whose second branch keeps the first branch's availability weight
determine_weights_unshifted(skill_score_arg) ==
    IF skill_score_arg.num > 0
    THEN [semantic |-> 28, skill |-> 30, experience |-> 20, role |-> 10,
          availability |-> 7, fairness |-> 5]
    ELSE [semantic |-> 33, skill |-> 10, experience |-> 20, role |-> 15,
          availability |-> 7, fairness |-> 5]

\* a profile that does not switch on skill_score
determine_weights_unswitched(skill_score_arg) ==
    [semantic |-> 28, skill |-> 30, experience |-> 20, role |-> 10,
     availability |-> 7, fairness |-> 5]

\* _determine_weights: semantic, skill, experience, role, availability, fairness
determine_weights(skill_score_arg) ==
    IF skill_score_arg.num > 0
    THEN [semantic |-> 28, skill |-> 30, experience |-> 20, role |-> 10,
          availability |-> 7, fairness |-> 5]
    ELSE [semantic |-> 33, skill |-> 10, experience |-> 20, role |-> 15,
          availability |-> 17, fairness |-> 5]

\* x + y over the least common denominator
FracPlus(x, y) ==
    LET d == Lcm(x.den, y.den)
    IN  [num |-> x.num * (d \div x.den) + y.num * (d \div y.den), den |-> d]

\* weight * score, weight in hundredths
Weighted(weight, score) == [num |-> weight * score.num, den |-> 100 * score.den]

\* max(0, min(100, round(score * 100)))
PercentOfScore(score) == Max(0, Min(100, RoundTenths(10 * score.num, score.den)))

\* _availability_label
availability_label(percent) ==
    IF percent >= 70 THEN "High availability"
    ELSE IF percent >= 40 THEN "Partial availability"
    ELSE "Limited availability"

\* one clause of the explanation: its fixed text and the values put into it
Clause(text, detail) == [text |-> text, detail |-> detail]

\* an explanation whose role tiers start at 0.5 and 0.3
build_reason_low_tiers(skills, goals, role_score, role, experience, availability_percent, workload_score) ==
    <<IF skills # <<>> THEN Clause("Direct skill matches: ", skills)
      ELSE Clause("No direct skill overlap with this task", <<>>)>>
    \o (IF goals # <<>> THEN <<Clause("Learning goals aligned: ", goals)>> ELSE <<>>)
    \o <<IF 10 * role_score.num >= 5 * role_score.den
         THEN Clause("Role as {role} fits the task directly", <<role>>)
         ELSE IF 10 * role_score.num >= 3 * role_score.den
              THEN Clause("Role as {role} is related to the task", <<role>>)
         ELSE Clause("Role as {role} provides partial relevance", <<role>>)>>
    \o <<IF experience >= 50 THEN Clause("Strong experience ({experience} years)", <<experience>>)
         ELSE Clause("{experience} years of experience", <<experience>>)>>
    \o <<IF availability_percent >= 70
         THEN Clause("Fully available during the required timeframe", <<>>)
         ELSE IF availability_percent >= 40
              THEN Clause("Partially available during the timeframe", <<>>)
         ELSE Clause("Availability is limited for this period", <<>>)>>
    \o <<IF 100 * workload_score.num >= 75 * workload_score.den
         THEN Clause("Recent workload is lighter than average", <<>>)
         ELSE IF 100 * workload_score.num >= 45 * workload_score.den
              THEN Clause("Recent workload is balanced", <<>>)
         ELSE Clause("Recent workload is heavier than average", <<>>)>>

\* _build_reason: the clauses of the explanation, in the order they are
\* appended; the result is their join with ". " and a final ".".  The years
\* are in tenths.
build_reason(skills, goals, role_score, role, experience, availability_percent, workload_score) ==
    <<IF skills # <<>> THEN Clause("Direct skill matches: ", skills)
      ELSE Clause("No direct skill overlap with this task", <<>>)>>
    \o (IF goals # <<>> THEN <<Clause("Learning goals aligned: ", goals)>> ELSE <<>>)
    \o <<IF 10 * role_score.num >= 8 * role_score.den
         THEN Clause("Role as {role} fits the task directly", <<role>>)
         ELSE IF 10 * role_score.num >= 5 * role_score.den
              THEN Clause("Role as {role} is related to the task", <<role>>)
         ELSE Clause("Role as {role} provides partial relevance", <<role>>)>>
    \o <<IF experience >= 50 THEN Clause("Strong experience ({experience} years)", <<experience>>)
         ELSE Clause("{experience} years of experience", <<experience>>)>>
    \o <<IF availability_percent >= 70
         THEN Clause("Fully available during the required timeframe", <<>>)
         ELSE IF availability_percent >= 40
              THEN Clause("Partially available during the timeframe", <<>>)
         ELSE Clause("Availability is limited for this period", <<>>)>>
    \o <<IF 100 * workload_score.num >= 75 * workload_score.den
         THEN Clause("Recent workload is lighter than average", <<>>)
         ELSE IF 100 * workload_score.num >= 45 * workload_score.den
              THEN Clause("Recent workload is balanced", <<>>)
         ELSE Clause("Recent workload is heavier than average", <<>>)>>

\* an aggregator that multiplies the role score by the availability weight and
\* the availability score by the role weight
build_recommendation_entry_crossed(employee, semantic_score, skill_score_arg, experience_score, role_score, availability_score, matched_skills, matched_goals, workload_score) ==
    LET w == determine_weights(skill_score_arg)
        final_score ==
            FracPlus(Weighted(w.semantic, semantic_score),
            FracPlus(Weighted(w.skill, skill_score_arg),
            FracPlus(Weighted(w.experience, experience_score),
            FracPlus(Weighted(w.availability, role_score),
            FracPlus(Weighted(w.role, availability_score),
                     Weighted(w.fairness, workload_score))))))
        availability_percent == PercentOfScore(availability_score)
    IN  [employee_id |-> employee.employee_id,
         role |-> employee.role,
         score_percent |-> PercentOfScore(final_score),
         availability_percent |-> availability_percent,
         availability_label |-> availability_label(availability_percent),
         skills |-> matched_skills,
         learning_goals |-> matched_goals,
         workload_score |-> workload_score,
         reason |-> build_reason(matched_skills, matched_goals, role_score, employee.role,
                                 employee.experience, availability_percent,
                                 workload_score),
         final_score |-> final_score]

build_recommendation_entry(employee, semantic_score, skill_score_arg, experience_score, role_score, availability_score, matched_skills, matched_goals, workload_score) ==
    LET w == determine_weights(skill_score_arg)
        final_score ==
            FracPlus(Weighted(w.semantic, semantic_score),
            FracPlus(Weighted(w.skill, skill_score_arg),
            FracPlus(Weighted(w.experience, experience_score),
            FracPlus(Weighted(w.role, role_score),
            FracPlus(Weighted(w.availability, availability_score),
                    Weighted(w.fairness, workload_score))))))
        availability_percent == PercentOfScore(availability_score)
    IN  [employee_id |-> employee.employee_id,
         role |-> employee.role,
         score_percent |-> PercentOfScore(final_score),
         availability_percent |-> availability_percent,
         availability_label |-> availability_label(availability_percent),
         skills |-> matched_skills,
         learning_goals |-> matched_goals,
         workload_score |-> workload_score,
         reason |-> build_reason(matched_skills, matched_goals, role_score, employee.role,
                                 employee.experience, availability_percent,
                                 workload_score),
         final_score |-> final_score]

--------------------------------------------------------------------------
(* Weight profiles.  A Python float is a finite rational, inf or nan; a value
   of the submitted dict is absent, None, a string, a number or a list. *)

WeightKeys ==
    <<"semantic", "skill", "experience", "role", "availability", "fairness",
      "preferences">>

Fin(n) == [t |-> "fin", num |-> n, den |-> 1]
Inf == [t |-> "inf"]
NaN == [t |-> "nan"]

Digits == <<"0", "1", "2", "3", "4", "5", "6", "7", "8", "9">>

IsDigits(s) == s # <<>> /\ \A i \in DOMAIN s : s[i] \in Range(Digits)

RECURSIVE DigitsValue(_)
DigitsValue(s) ==
    IF s = <<>> THEN 0
    ELSE 10 * DigitsValue(SubSeq(s, 1, Len(s) - 1))
         + (CHOOSE d \in 0..9 : Digits[d + 1] = s[Len(s)])

\* float(str): surrounding blanks are ignored, "nan" and "inf" / "infinity" are
\* read in any case, a signed run of digits is its value, anything else raises
\* ValueError (NULL here)
float_of_str(s) ==
    LET t == lower(strip(s))
        signed == t # <<>> /\ t[1] \in {"-", "+"}
        body == IF signed THEN SubSeq(t, 2, Len(t)) ELSE t
    IN  IF body = <<"n", "a", "n">> THEN <<NaN>>
        ELSE IF body \in {<<"i", "n", "f">>, <<"i", "n", "f", "i", "n", "i", "t", "y">>}
             THEN IF signed /\ t[1] = "-" THEN <<[t |-> "ninf"]>> ELSE <<Inf>>
        ELSE IF IsDigits(body)
             THEN <<Fin(IF signed /\ t[1] = "-" THEN 0 - DigitsValue(body)
                        ELSE DigitsValue(body))>>
        ELSE NULL

\* float(value); NULL when it raises
float(value) ==
    IF value.t = "number" THEN <<value.f>>
    ELSE IF value.t = "str" THEN float_of_str(value.s)
    ELSE NULL

\* num < 0
float_negative(x) == x.t = "ninf" \/ (x.t = "fin" /\ x.num < 0)

\* x + y of two floats that are not negative
float_add(x, y) ==
    IF x.t = "nan" \/ y.t = "nan" THEN NaN
    ELSE IF x.t = "inf" \/ y.t = "inf" THEN Inf
    ELSE LET sum == FracPlus(x, y) IN [t |-> "fin", num |-> sum.num, den |-> sum.den]

RECURSIVE float_sum(_)
float_sum(values) ==
    IF values = <<>> THEN Fin(0)
    ELSE float_add(float_sum(SubSeq(values, 1, Len(values) - 1)), values[Len(values)])

\* x / total for total > 0, inf or nan
float_div(x, total) ==
    IF x.t = "nan" \/ total.t = "nan" THEN NaN
    ELSE IF total.t = "inf" THEN (IF x.t = "inf" THEN NaN ELSE Fin(0))
    ELSE IF x.t = "inf" THEN Inf
    ELSE [t |-> "fin", num |-> x.num * total.den, den |-> x.den * total.num]

\* the value the loop of _normalise_weights keeps for one key; NULL when the
\* loop returns None at that key
clean_value(value) ==
    IF value.t \in {"absent", "None"} \/ (value.t = "str" /\ value.s = <<>>) THEN NULL
    ELSE LET num == float(value)
         IN  IF num = NULL THEN NULL
             ELSE IF float_negative(Val(num)) THEN NULL
             ELSE num

\* _normalise_weights: NULL is None, <<w>> a dict of seven floats
normalise_weights(weights) ==
    IF ~weights.dict THEN NULL
    ELSE LET clean == [i \in DOMAIN WeightKeys |-> clean_value(weights.items[WeightKeys[i]])]
         IN  IF \E i \in DOMAIN clean : clean[i] = NULL THEN NULL
             ELSE LET total == float_sum([i \in DOMAIN clean |-> Val(clean[i])])
                  IN  IF total.t = "fin" /\ total.num <= 0 THEN NULL
                      ELSE <<[key \in Range(WeightKeys) |->
                                float_div(Val(clean[CHOOSE i \in DOMAIN WeightKeys :
                                                        WeightKeys[i] = key]),
                                          total)]>>

NormaliseWeights ==
    /\ request.fn = "weights"
    /\ response = None
    /\ response' = [op |-> "_normalise_weights",
                    result |-> normalise_weights(request.weights)]
    /\ UNCHANGED <<assignments, uploadEmployees, userSettings, request, assignmentHistory, DEFAULT_MODEL, instantiated, threads>>

MaxWeight == 3

Number(f) == [t |-> "number", f |-> f]
Str(s) == [t |-> "str", s |-> s]

WeightStrings ==
    {<<>>, <<"x">>, <<"2">>, <<" ", "1">>, <<"-", "1">>, <<"N", "a", "N">>,
     <<"i", "n", "f">>}

WeightValues ==
    {[t |-> "absent"], [t |-> "None"], [t |-> "list"]}
    \cup {Str(s) : s \in WeightStrings}
    \cup {Number(Fin(n)) : n \in (0 - 1)..MaxWeight}
    \cup {Number(Inf), Number(NaN)}

Dict(items) == [dict |-> TRUE, items |-> items]

\* profiles that are all 0 or all 1 except at up to two keys, and a body that
\* is not a dict
InitWeights ==
    /\ assignments = EmptyBag
    /\ uploadEmployees = {}
    /\ userSettings = NoSettings
    /\ Idle
    /\ \/ request = [fn |-> "weights", weights |-> [dict |-> FALSE]]
       \/ \E base \in {0, 1}, k1, k2 \in Range(WeightKeys), v1, v2 \in WeightValues :
             request = [fn |-> "weights",
                        weights |-> Dict([[key \in Range(WeightKeys) |-> Number(Fin(base))]
                                             EXCEPT ![k1] = v1, ![k2] = v2])]
    /\ response = None

NextWeights == NormaliseWeights \/ Return

SpecWeights == InitWeights /\ [][NextWeights]_vars

--------------------------------------------------------------------------
(* The "UserSettings" row of the manager and the handlers that write it *)

\* the row INSERT INTO "UserSettings" (user_id) creates: the column defaults
DefaultSettings ==
    [row |-> "stored", theme |-> "light", font_size |-> "medium",
     use_custom_weights |-> FALSE, weights |-> NULL]

\* COALESCE(value, column)
COALESCE(value, column) == IF value # NULL THEN Val(value) ELSE column

\* persist_user_settings(user_id, theme, font_size, use_custom_weights, weights):
\* the row after the commit and what the call returns.  The seven weight
\* columns are written together, so they are one field, NULL or <<profile>>.
persist_user_settings(settings, theme, font_size, use_custom_weights, weights) ==
    LET existing == IF settings = NoSettings THEN DefaultSettings ELSE settings
        normalized == IF weights # NULL THEN normalise_weights(Val(weights)) ELSE NULL
    IN  [stored |-> [row |-> "stored",
                     theme |-> COALESCE(theme, existing.theme),
                     font_size |-> COALESCE(font_size, existing.font_size),
                     use_custom_weights |-> COALESCE(use_custom_weights,
                                                     existing.use_custom_weights),
                     weights |-> IF normalized # NULL THEN normalized
                                 ELSE existing.weights],
         raised |-> "none",
         returned |-> [message |-> "Settings updated"]]

\* POST /settings: update_settings(data)
update_settings(settings, data) ==
    IF data.user_id = NULL \/ Val(data.user_id) = 0
    THEN [stored |-> settings, raised |-> "HTTPException", status_code |-> 400]
    ELSE persist_user_settings(settings, data.theme, data.font_size, NULL, NULL)

Themes == {NULL, <<"dark">>}
FontSizes == {NULL, <<"large">>}
Flags == {NULL, <<TRUE>>, <<FALSE>>}

Profile(semantic, rest, last) ==
    Dict([key \in Range(WeightKeys) |->
             IF key = "semantic" THEN semantic
             ELSE IF key \in {"fairness", "preferences"} THEN last
             ELSE rest])

\* not given, all zero, two valid ones, a negative value, a missing key, a
\* value that is not a number, a body that is not a dict
SettingsProfiles ==
    {NULL,
     <<Profile(Number(Fin(0)), Number(Fin(0)), Number(Fin(0)))>>,
     <<Profile(Number(Fin(1)), Number(Fin(1)), Number(Fin(0)))>>,
     <<Profile(Number(Fin(MaxWeight)), Number(Fin(1)), Number(Fin(1)))>>,
     <<Profile(Number(Fin(0 - 1)), Number(Fin(1)), Number(Fin(1)))>>,
     <<Profile([t |-> "absent"], Number(Fin(1)), Number(Fin(1)))>>,
     <<Profile(Str(<<"x">>), Number(Fin(1)), Number(Fin(1)))>>,
     <<[dict |-> FALSE]>>}

PersistUserSettings(theme, font_size, use_custom_weights, weights) ==
    /\ request.fn = "settings"
    /\ response = None
    /\ LET done == persist_user_settings(userSettings, theme, font_size,
                                         use_custom_weights, weights)
       IN  /\ userSettings' = done.stored
           /\ response' = [op |-> "persist_user_settings",
                           theme |-> theme, font_size |-> font_size,
                           use_custom_weights |-> use_custom_weights,
                           weights |-> weights,
                           before |-> userSettings,
                           result |-> done]
    /\ UNCHANGED <<assignments, uploadEmployees, request, assignmentHistory, DEFAULT_MODEL, instantiated, threads>>

UpdateSettings(data) ==
    /\ request.fn = "settings"
    /\ response = None
    /\ LET done == update_settings(userSettings, data)
       IN  /\ userSettings' = done.stored
           /\ response' = [op |-> "update_settings", data |-> data,
                           before |-> userSettings, result |-> done]
    /\ UNCHANGED <<assignments, uploadEmployees, request, assignmentHistory, DEFAULT_MODEL, instantiated, threads>>

InitSettings ==
    /\ assignments = EmptyBag
    /\ uploadEmployees = {}
    /\ userSettings = NoSettings
    /\ Idle
    /\ request = [fn |-> "settings"]
    /\ response = None

NextSettings ==
    \/ \E theme \in Themes, font_size \in FontSizes, use_custom_weights \in Flags,
          weights \in SettingsProfiles :
            PersistUserSettings(theme, font_size, use_custom_weights, weights)
    \/ \E user_id \in {NULL, <<0>>, <<1>>}, theme \in Themes, font_size \in FontSizes,
          use_custom_weights \in Flags, weights \in SettingsProfiles :
            UpdateSettings([user_id |-> user_id, theme |-> theme,
                            font_size |-> font_size,
                            use_custom_weights |-> use_custom_weights,
                            weights |-> weights])
    \/ Return

SpecSettings == InitSettings /\ [][NextSettings]_vars

--------------------------------------------------------------------------
(* The aggregator applied to component scores.  A cosine similarity lies in
   [-1, 1]; the other five components lie in [0, 1]. *)

Hundredths(v) == [num |-> v, den |-> 100]

SemanticScores == {0 - 5, 0, 50, 100}
SkillScores == {0, 50, 100}
ExperienceScores == {0, 50, 100}
\* the values compute_role_match returns and the two tier limits of the
\* explanation
RoleScores == {0, LowRoleScore, 50, WordRoleScore, 80, FullRoleScore}
AvailabilityScores == {0, 40, 45, 70, 100}
WorkloadScores == {0, 45, 75, 100}
\* years of experience of the employee, in tenths
ScoreExperiences == {49, 50}

\* the "UserSettings" row after persist_user_settings(user_id, None, None, True,
\* {semantic: 1, skill: 1, experience: 1, role: 1, availability: 1,
\*  fairness: 0, preferences: 0}) for a user without a row
CustomSettings ==
    persist_user_settings(NoSettings, NULL, NULL, <<TRUE>>,
                          <<Profile(Number(Fin(1)), Number(Fin(1)), Number(Fin(0)))>>).stored

ScoreRequest(experience, semantic_score, skill, experience_score, role_score, availability_score, matched_skills, matched_goals, workload_score) ==
    [fn |-> "score",
     employee |-> Employee(1, <<Python>>, experience, matched_skills),
     semantic_score |-> Hundredths(semantic_score),
     skill_score |-> Hundredths(skill),
     experience_score |-> Hundredths(experience_score),
     role_score |-> Hundredths(role_score),
     availability_score |-> Hundredths(availability_score),
     matched_skills |-> matched_skills,
     matched_goals |-> matched_goals,
     workload_score |-> Hundredths(workload_score)]

DetermineWeights ==
    /\ request.fn = "score"
    /\ response = None
    /\ response' = [op |-> "_determine_weights",
                    result |-> determine_weights(request.skill_score)]
    /\ UNCHANGED <<assignments, uploadEmployees, userSettings, request, assignmentHistory, DEFAULT_MODEL, instantiated, threads>>

BuildRecommendationEntry ==
    /\ request.fn = "score"
    /\ response = None
    /\ response' = [op |-> "build_recommendation_entry",
                    result |-> build_recommendation_entry(
                        request.employee, request.semantic_score, request.skill_score,
                        request.experience_score, request.role_score,
                        request.availability_score, request.matched_skills,
                        request.matched_goals, request.workload_score)]
    /\ UNCHANGED <<assignments, uploadEmployees, userSettings, request, assignmentHistory, DEFAULT_MODEL, instantiated, threads>>

InitScore ==
    /\ assignments = EmptyBag
    /\ uploadEmployees = {}
    /\ userSettings \in {NoSettings, CustomSettings}
    /\ Idle
    /\ \E semantic_score \in SemanticScores, skill \in SkillScores,
          experience_score \in ExperienceScores, role_score \in RoleScores,
          availability_score \in AvailabilityScores, workload_score \in WorkloadScores,
          matched_skills \in {<<>>, <<Python>>}, matched_goals \in {<<>>, <<Figma>>},
          experience \in ScoreExperiences :
            request = ScoreRequest(experience, semantic_score, skill, experience_score, role_score,
                                   availability_score, matched_skills, matched_goals,
                                   workload_score)
    /\ response = None

NextScore == DetermineWeights \/ BuildRecommendationEntry \/ Return

SpecScore == InitScore /\ [][NextScore]_vars

--------------------------------------------------------------------------
(* The aggregator's contract *)

IsWeights == response.op = "_determine_weights"
IsEntry == response.op = "build_recommendation_entry"

WeightSum(w) ==
    w.semantic + w.skill + w.experience + w.role + w.availability + w.fairness

SpecFinalScore(r) ==
    IF r.skill_score.num > 0
    THEN 28 * r.semantic_score.num + 30 * r.skill_score.num
         + 20 * r.experience_score.num + 10 * r.role_score.num
         + 7 * r.availability_score.num + 5 * r.workload_score.num
    ELSE 33 * r.semantic_score.num + 10 * r.skill_score.num
         + 20 * r.experience_score.num + 15 * r.role_score.num
         + 17 * r.availability_score.num + 5 * r.workload_score.num

\* C12: with no custom profile, build_recommendation_entry's final_score is the
\* sum of weight_i * score_i over the six components, with weights (0.28, 0.30,
\* 0.20, 0.10, 0.07, 0.05) when skill_score > 0 and (0.33, 0.10, 0.20, 0.15,
\* 0.17, 0.05) when skill_score == 0, each on the component of the same name.
C12_FinalScoreIsWeightedSum ==
    (IsEntry /\ userSettings = NoSettings) =>
        FracEq(response.result.final_score,
               [num |-> SpecFinalScore(request), den |-> 10000])

\* an entry whose six components are all different and whose skill_score is 0
C12_Witness ==
    /\ IsEntry
    /\ userSettings = NoSettings
    /\ Idle
    /\ request.skill_score.num = 0
    /\ request.semantic_score.num = 50
    /\ request.experience_score.num = 100
    /\ request.role_score.num = LowRoleScore
    /\ request.availability_score.num = 45
    /\ request.workload_score.num = 0
    /\ FracEq(response.result.final_score, [num |-> 4865, den |-> 10000])

FracTimes(x, y) == [num |-> x.num * y.num, den |-> x.den * y.den]

\* sum of the stored profile's weights times the component scores
ProfileScore(weights, r) ==
    FracPlus(FracTimes(weights["semantic"], r.semantic_score),
    FracPlus(FracTimes(weights["skill"], r.skill_score),
    FracPlus(FracTimes(weights["experience"], r.experience_score),
    FracPlus(FracTimes(weights["role"], r.role_score),
    FracPlus(FracTimes(weights["availability"], r.availability_score),
             FracTimes(weights["fairness"], r.workload_score))))))

HasCustomProfile ==
    /\ userSettings # NoSettings
    /\ userSettings.use_custom_weights
    /\ userSettings.weights # NULL

\* C13: when the manager has stored a normalized custom profile, every entry's
\* final_score is the sum of the profile's weights times the component scores,
\* and the switch on skill_score is not applied.
C13_CustomProfileIsUsed ==
    (IsEntry /\ HasCustomProfile) =>
        FracEq(response.result.final_score,
               ProfileScore(Val(userSettings.weights), request))

\* C14: the final_score built from the six component scores, the semantic one
\* being a raw cosine similarity, lies in [0, 1].
C14_FinalScoreInUnitInterval ==
    IsEntry =>
        /\ FracGeq(response.result.final_score, Zero)
        /\ FracGeq([num |-> 1, den |-> 1], response.result.final_score)

--------------------------------------------------------------------------
(* The ranking call's contract *)

\* a ranking call for a manager, through either entry point, has answered
IsRankingCall ==
    /\ response.op \in {"match_employees", "generate_recommendations"}
    /\ request.fn = "match"
    /\ request.user_id # NULL

Returned == response.result.raised = "none"

\* position of an employee in the list the loader gave
ListedAt(employee_id) ==
    CHOOSE i \in DOMAIN request.employees : request.employees[i].employee_id = employee_id

EntryFields ==
    {"employee_id", "score_percent", "availability_percent", "availability_label",
     "skills", "learning_goals", "workload_score", "reason", "final_score"}

\* C15: match_employees returns the entries sorted by final_score in descending
\* order, entries of equal final_score in the order their employees were
\* listed by the loader.
C15_SortedDescendingAndStable ==
    (IsRankingCall /\ request.employees # <<>>) =>
        /\ Returned
        /\ LET ranked == response.result.returned
           IN  \A i, j \in DOMAIN ranked :
                   i < j =>
                     /\ FracGeq(ranked[i].final_score, ranked[j].final_score)
                     /\ FracEq(ranked[i].final_score, ranked[j].final_score)
                          => ListedAt(ranked[i].employee_id)
                               < ListedAt(ranked[j].employee_id)

\* C16: for a manager with n >= 1 employees one ranking call returns exactly n
\* entries, one per employee and none duplicated, each carrying employee_id,
\* score_percent, availability_percent, availability_label, skills,
\* learning_goals, workload_score, reason and final_score.
C16_OneEntryPerEmployee ==
    (IsRankingCall /\ request.employees # <<>>) =>
        /\ Returned
        /\ LET ranked == response.result.returned
           IN  /\ Len(ranked) = Len(request.employees)
               /\ \A i \in DOMAIN request.employees :
                      Cardinality({j \in DOMAIN ranked :
                                       ranked[j].employee_id
                                         = request.employees[i].employee_id}) = 1
               /\ \A j \in DOMAIN ranked : EntryFields \subseteq DOMAIN ranked[j]

\* C17: for a manager with zero employees match_employees, and
\* generate_recommendations for a non-null user_id, returns the empty list and
\* raises no error, without loading the embedding model or querying
\* availability.
C17_EmptyPoolReturnsEmptyList ==
    (IsRankingCall /\ request.employees = <<>>) =>
        /\ Returned
        /\ response.result.returned = <<>>
        /\ {"get_sentence_model", "encode_task", "encode_employees",
            "calculate_assignment_availability"}
             \cap Range(response.result.calls) = {}

\* generate_recommendations has answered a manager who has no employee
C17_Witness ==
    /\ response.op = "generate_recommendations"
    /\ request.user_id = <<1>>
    /\ request.employees = <<>>
    /\ response.result.returned = <<>>
    /\ response.result.calls = <<"fetch_employees_by_user">>

\* C18: a failure confined to one employee's stored data, here a missing role,
\* never aborts a ranking call: every employee of the manager is still scored
\* and returned.
C18_MissingRoleDoesNotAbort ==
    (/\ IsRankingCall
     /\ \E i \in DOMAIN request.employees : request.employees[i].role = NULL) =>
        /\ Returned
        /\ \A i \in DOMAIN request.employees :
               \E j \in DOMAIN response.result.returned :
                   response.result.returned[j].employee_id
                     = request.employees[i].employee_id

--------------------------------------------------------------------------
(* The weight profile's contract *)

IsNormalised == response.op = "_normalise_weights"

\* the number a submitted value stands for: a finite number, or a string that
\* spells a whole number; NULL for everything else
SpecNumber(value) ==
    IF value.t = "number" /\ value.f.t = "fin" THEN <<value.f.num>>
    ELSE IF value.t = "str" /\ float_of_str(value.s) # NULL
                            /\ Val(float_of_str(value.s)).t = "fin"
         THEN <<Val(float_of_str(value.s)).num>>
    ELSE NULL

RECURSIVE SpecTotal(_, _)
SpecTotal(items, keys) ==
    IF keys = {} THEN 0
    ELSE LET key == CHOOSE k \in keys : TRUE
         IN  Val(SpecNumber(items[key])) + SpecTotal(items, keys \ {key})

\* all seven keys present, numeric and non-negative, and their sum > 0
SpecValidProfile(weights) ==
    /\ weights.dict
    /\ \A key \in Range(WeightKeys) :
          /\ SpecNumber(weights.items[key]) # NULL
          /\ Val(SpecNumber(weights.items[key])) >= 0
    /\ SpecTotal(weights.items, Range(WeightKeys)) > 0

\* seven non-negative weights summing to 1, each input_i / sum(inputs)
SpecNormalised(weights, result) ==
    LET total == SpecTotal(weights.items, Range(WeightKeys))
    IN  /\ DOMAIN result = Range(WeightKeys)
        /\ \A key \in Range(WeightKeys) :
              /\ result[key].t = "fin"
              /\ result[key].num >= 0
              /\ FracEq(result[key],
                        [num |-> Val(SpecNumber(weights.items[key])), den |-> total])
        /\ float_sum([i \in DOMAIN WeightKeys |-> result[WeightKeys[i]]]).t = "fin"
        /\ FracEq(float_sum([i \in DOMAIN WeightKeys |-> result[WeightKeys[i]]]),
                  [num |-> 1, den |-> 1])

\* C19: _normalise_weights accepts a profile only if all seven keys are
\* present, numeric and non-negative and their sum is > 0; an accepted
\* profile's result has seven non-negative weights summing to 1, each equal to
\* input_i / sum(inputs); every other input is rejected.
C19_AcceptsExactlyValidProfiles ==
    IsNormalised =>
        IF SpecValidProfile(request.weights)
        THEN /\ response.result # NULL
             /\ SpecNormalised(request.weights, Val(response.result))
        ELSE response.result = NULL

\* no value of the profile is, or spells, inf or nan
FiniteProfile(weights) ==
    weights.dict =>
        \A key \in Range(WeightKeys) :
            LET value == weights.items[key]
            IN  /\ value.t = "number" => value.f.t = "fin"
                /\ value.t = "str" =>
                     \/ float_of_str(value.s) = NULL
                     \/ Val(float_of_str(value.s)).t = "fin"

\* the contract of C19 on profiles without inf and nan
C19_FiniteProfiles ==
    (IsNormalised /\ FiniteProfile(request.weights)) =>
        IF SpecValidProfile(request.weights)
        THEN /\ response.result # NULL
             /\ SpecNormalised(request.weights, Val(response.result))
        ELSE response.result = NULL

\* a profile with unequal weights and a numeral string has been normalised
C19_FiniteWitness ==
    /\ IsNormalised
    /\ request.weights.dict
    /\ request.weights.items["semantic"] = Str(<<"2">>)
    /\ request.weights.items["skill"] = Number(Fin(3))
    /\ response.result # NULL
    /\ FracEq(Val(response.result)["semantic"], [num |-> 2, den |-> 10])

--------------------------------------------------------------------------
(* The settings handlers' contract *)

\* persist_user_settings has answered a call whose weight profile
\* _normalise_weights does not accept
InvalidProfilePersisted ==
    /\ response.op = "persist_user_settings"
    /\ response.weights # NULL
    /\ normalise_weights(Val(response.weights)) = NULL

\* the row the call found, or the column defaults when it found none
RowBefore ==
    IF response.before = NoSettings THEN DefaultSettings ELSE response.before

\* C20: when persist_user_settings is given an all-zero or otherwise invalid
\* weight profile the call is rejected with a validation error surfaced to the
\* caller, and the stored weights and the use_custom_weights flag are left
\* untouched.
C20_InvalidProfileIsRejected ==
    InvalidProfilePersisted =>
        /\ response.result.raised # "none"
        /\ userSettings.weights = RowBefore.weights
        /\ userSettings.use_custom_weights = RowBefore.use_custom_weights

\* what the call does keep: the stored weights
C20_InvalidProfileKeepsStoredWeights ==
    InvalidProfilePersisted => userSettings.weights = RowBefore.weights

\* an all-zero profile sent with use_custom_weights = True over a stored profile
C20_AllZeroOverStoredProfile ==
    /\ InvalidProfilePersisted
    /\ response.weights = <<Profile(Number(Fin(0)), Number(Fin(0)), Number(Fin(0)))>>
    /\ response.before # NoSettings
    /\ response.before.weights # NULL
    /\ ~response.before.use_custom_weights
    /\ userSettings.use_custom_weights
    /\ response.result.returned = [message |-> "Settings updated"]

--------------------------------------------------------------------------
(* The explanation's contract *)

\* the tier of a value among limits given from the highest down: 1 for the
\* first limit it reaches, Len(limits) + 1 when it reaches none
RECURSIVE Tier(_, _)
Tier(value, limits) ==
    IF limits = <<>> THEN 1
    ELSE IF value >= limits[1] THEN 1
    ELSE 1 + Tier(value, SubSeq(limits, 2, Len(limits)))

\* the clause texts of each dimension, by tier
SpecTexts ==
    [skills |-> <<"Direct skill matches: ", "No direct skill overlap with this task">>,
     goals |-> <<"Learning goals aligned: ">>,
     role |-> <<"Role as {role} fits the task directly",
                "Role as {role} is related to the task",
                "Role as {role} provides partial relevance">>,
     experience |-> <<"Strong experience ({experience} years)",
                      "{experience} years of experience">>,
     availability |-> <<"Fully available during the required timeframe",
                        "Partially available during the timeframe",
                        "Availability is limited for this period">>,
     fairness |-> <<"Recent workload is lighter than average",
                    "Recent workload is balanced",
                    "Recent workload is heavier than average">>]

\* the dimensions in their fixed order, each with the tier the seven inputs
\* give it; the learning goals only when some matched
SpecClauses(skills, goals, role_score, experience, availability_percent, workload_score) ==
    <<[dimension |-> "skills", tier |-> IF skills # <<>> THEN 1 ELSE 2]>>
    \o (IF goals # <<>> THEN <<[dimension |-> "goals", tier |-> 1]>> ELSE <<>>)
    \o <<[dimension |-> "role", tier |-> Tier(role_score, <<80, 50>>)],
         [dimension |-> "experience", tier |-> Tier(experience, <<50>>)],
         [dimension |-> "availability", tier |-> Tier(availability_percent, <<70, 40>>)],
         [dimension |-> "fairness", tier |-> Tier(workload_score, <<75, 45>>)]>>

\* C27: the explanation of an entry is determined by (matched skills, matched
\* goals, role score, role, experience, availability percent, workload score)
\* and has one clause per dimension in the order skills, learning goals (only
\* when some matched), role tier (>= 0.8, >= 0.5, else), experience tier
\* (>= 5 years, else), availability tier (>= 70, >= 40, else), fairness tier
\* (>= 0.75, >= 0.45, else).
C27_ExplanationClauses ==
    IsEntry =>
        LET reason == response.result.reason
            expected == SpecClauses(request.matched_skills, request.matched_goals,
                                    request.role_score.num, request.employee.experience,
                                    response.result.availability_percent,
                                    request.workload_score.num)
        IN  /\ Len(reason) = Len(expected)
            /\ \A i \in DOMAIN expected :
                  reason[i].text = SpecTexts[expected[i].dimension][expected[i].tier]
            /\ reason[1].detail = request.matched_skills
            /\ request.matched_goals # <<>> => reason[2].detail = request.matched_goals
            /\ reason = build_reason(request.matched_skills, request.matched_goals,
                                     request.role_score, request.employee.role,
                                     request.employee.experience,
                                     response.result.availability_percent,
                                     request.workload_score)

\* an entry with matched goals whose role score is exactly 0.8, experience just
\* under 5 years, availability exactly 40 and workload score exactly 0.75
C27_Witness ==
    /\ IsEntry
    /\ request.matched_skills = <<>>
    /\ request.matched_goals # <<>>
    /\ request.role_score.num = 80
    /\ request.employee.experience = 49
    /\ response.result.availability_percent = 40
    /\ request.workload_score.num = 75
    /\ Len(response.result.reason) = 6
    /\ response.result.reason[3].text = "Role as {role} fits the task directly"
    /\ response.result.reason[6].text = "Recent workload is lighter than average"

--------------------------------------------------------------------------
(* The final score as a function of the skill score *)

\* the final_score of the answered call's candidate with another skill_score
FinalScoreWith(skill) ==
    build_recommendation_entry(request.employee, request.semantic_score,
                               Hundredths(skill), request.experience_score,
                               request.role_score, request.availability_score,
                               request.matched_skills, request.matched_goals,
                               request.workload_score).final_score

\* C30: with the default weights and the other five components fixed, a
\* candidate never gets a lower final_score with a higher skill_score, in
\* particular with a positive skill_score than with skill_score 0.
C30_MonotoneInSkillScore ==
    IsEntry =>
        \A skill \in SkillScores :
            skill >= request.skill_score.num =>
                FracGeq(FinalScoreWith(skill), response.result.final_score)

\* C30 as the code has it: final_score is non-decreasing in skill_score among
\* positive skill scores, and a positive skill_score s scores at least as high
\* as skill_score 0 exactly when
\* 0.30 s >= 0.05 semantic + 0.05 role + 0.10 availability.
C30_MonotoneAmongPositiveSkillScores ==
    IsEntry =>
        \A skill \in SkillScores \ {0} :
            IF request.skill_score.num = 0
            THEN FracGeq(FinalScoreWith(skill), response.result.final_score)
                   <=> 30 * skill >= 5 * request.semantic_score.num
                                       + 5 * request.role_score.num
                                       + 10 * request.availability_score.num
            ELSE skill >= request.skill_score.num =>
                     FracGeq(FinalScoreWith(skill), response.result.final_score)

\* a candidate with skill_score 0 who would score lower with skill_score 0.5
C30_Witness ==
    /\ IsEntry
    /\ request.skill_score.num = 0
    /\ request.semantic_score.num = 100
    /\ request.role_score.num = 100
    /\ request.availability_score.num = 100
    /\ ~FracGeq(FinalScoreWith(50), response.result.final_score)
    /\ FracGeq(FinalScoreWith(100), response.result.final_score)

--------------------------------------------------------------------------
(* The stored settings row's invariant *)

\* seven finite non-negative weights that sum to 1
NormalizedProfile(weights) ==
    /\ DOMAIN weights = Range(WeightKeys)
    /\ \A key \in Range(WeightKeys) : weights[key].t = "fin" /\ weights[key].num >= 0
    /\ float_sum([i \in DOMAIN WeightKeys |-> weights[WeightKeys[i]]]).t = "fin"
    /\ FracEq(float_sum([i \in DOMAIN WeightKeys |-> weights[WeightKeys[i]]]),
              [num |-> 1, den |-> 1])

\* C28: after any sequence of persist_user_settings calls, if
\* use_custom_weights is true then all seven stored weights are set,
\* non-negative and sum to 1; the stored weights are always either all unset
\* or together a normalized profile.
C28_CustomFlagImpliesProfile ==
    userSettings # NoSettings =>
        /\ userSettings.use_custom_weights =>
             /\ userSettings.weights # NULL
             /\ NormalizedProfile(Val(userSettings.weights))
        /\ userSettings.weights # NULL => NormalizedProfile(Val(userSettings.weights))

\* what holds of the stored weights for the profiles sent here (none of them
\* with inf or nan): they are unset or a normalized profile
C28_StoredWeightsAreNormalized ==
    (userSettings # NoSettings /\ userSettings.weights # NULL) =>
        NormalizedProfile(Val(userSettings.weights))

--------------------------------------------------------------------------
(* Merging the organization-asserted and the self-asserted skills.  A skill
   row is a name (NULL or a string) and years (NULL or a float). *)

SkillRow(skill_name, years_experience) ==
    [skill_name |-> skill_name, years_experience |-> years_experience]

\* x or 0, for x None or a float
or_zero(x) == IF x = NULL \/ (Val(x).t = "fin" /\ Val(x).num = 0) THEN Fin(0) ELSE Val(x)

\* b > a on floats: False when either is nan
float_gt(b, a) == a.t = "fin" /\ b.t = "fin" /\ b.num * a.den > a.num * b.den

\* max(a, b) of two floats: the first unless the second is greater
py_max(a, b) == IF float_gt(b, a) THEN b ELSE a

\* max(existing or 0, years or 0); floats never make max raise
merge_years(existing, years) == <<py_max(or_zero(existing), or_zero(years))>>

\* the loop of _merge_skills: merged is the dict as a sequence of entries in
\* insertion order, each with its key
RECURSIVE merge_loop(_, _)
merge_loop(items, merged) ==
    IF items = <<>> THEN merged
    ELSE LET item == items[1]
             name == IF item.skill_name = NULL THEN <<>> ELSE strip(Val(item.skill_name))
             key == lower(name)
             years == item.years_experience
             rest == SubSeq(items, 2, Len(items))
         IN  IF name = <<>> THEN merge_loop(rest, merged)
             ELSE IF \A i \in DOMAIN merged : merged[i].key # key
                  THEN merge_loop(rest, Append(merged, [key |-> key, skill_name |-> name,
                                                        years_experience |-> years]))
             ELSE LET i == CHOOSE j \in DOMAIN merged : merged[j].key = key
                  IN  merge_loop(rest,
                                 [merged EXCEPT ![i].years_experience =
                                      merge_years(merged[i].years_experience, years)])

\* _merge_skills(primary, secondary): list(merged.values())
merge_skills(primary, secondary) ==
    LET merged == merge_loop(primary \o secondary, <<>>)
    IN  [i \in DOMAIN merged |->
            SkillRow(<<merged[i].skill_name>>, merged[i].years_experience)]

MergeSkills ==
    /\ request.fn = "merge"
    /\ response = None
    /\ response' = [op |-> "_merge_skills",
                    result |-> merge_skills(request.primary, request.secondary)]
    /\ UNCHANGED <<assignments, uploadEmployees, userSettings, request, assignmentHistory, DEFAULT_MODEL, instantiated, threads>>

MaxPrimary == 2
MaxSecondary == 1

\* the order of the characters in a byte-wise collation
CharOrder == <<" ", "B", "a", "b">>
CharRank(c) == CHOOSE i \in DOMAIN CharOrder : CharOrder[i] = c

\* a <= b for two strings
RECURSIVE str_leq(_, _)
str_leq(a, b) ==
    IF a = <<>> THEN TRUE
    ELSE IF b = <<>> THEN FALSE
    ELSE IF a[1] # b[1] THEN CharRank(a[1]) < CharRank(b[1])
    ELSE str_leq(Tail(a), Tail(b))

\* ORDER BY skill_name ASC: NULL names last
name_leq(a, b) == b = NULL \/ (a # NULL /\ str_leq(Val(a), Val(b)))

SkillNames == {NULL, <<<<" ">>>>, <<<<"B">>>>, <<<<"b", " ">>>>, <<<<"a">>>>}
SkillYears == {NULL, <<Fin(0 - 2)>>, <<Fin(0)>>, <<Fin(3)>>, <<NaN>>}
SkillRows == {SkillRow(n, y) : n \in SkillNames, y \in SkillYears}

\* the lists _fetch_employee_skills and _fetch_employee_self_skills can return
FetchedSkills(n) ==
    {rows \in UNION {[1..k -> SkillRows] : k \in 0..n} :
         \A i \in 1..(Len(rows) - 1) : name_leq(rows[i].skill_name, rows[i + 1].skill_name)}

InitMerge ==
    /\ assignments = EmptyBag
    /\ uploadEmployees = {}
    /\ userSettings = NoSettings
    /\ Idle
    /\ \E primary \in FetchedSkills(MaxPrimary), secondary \in FetchedSkills(MaxSecondary) :
          request = [fn |-> "merge", primary |-> primary, secondary |-> secondary]
    /\ response = None

NextMerge == MergeSkills \/ Return

SpecMerge == InitMerge /\ [][NextMerge]_vars

--------------------------------------------------------------------------
(* The merge's contract *)

IsMerge == response.op = "_merge_skills"

\* the label of a row: its name without surrounding blanks and case; <<>>
\* when the name is missing or blank
SpecLabel(row) ==
    IF row.skill_name = NULL THEN <<>> ELSE lower(strip(Val(row.skill_name)))

\* the years values given for a label in both lists
SpecYearsOf(label, rows) ==
    {Val(rows[i].years_experience) :
         i \in {j \in DOMAIN rows : /\ SpecLabel(rows[j]) = label
                                    /\ rows[j].years_experience # NULL}}

SpecMerged(rows, merged) ==
    /\ {SpecLabel(merged[i]) : i \in DOMAIN merged}
         = {SpecLabel(rows[i]) : i \in DOMAIN rows} \ {<<>>}
    /\ \A i, j \in DOMAIN merged : SpecLabel(merged[i]) = SpecLabel(merged[j]) => i = j
    /\ \A i \in DOMAIN merged :
          LET values == SpecYearsOf(SpecLabel(merged[i]), rows)
          IN  values # {} =>
                /\ merged[i].years_experience # NULL
                /\ Val(merged[i].years_experience) \in values
                /\ \A v \in values :
                       ~float_gt(v, Val(merged[i].years_experience))
                       /\ (v.t = "nan" <=> Val(merged[i].years_experience).t = "nan")

\* the same labels with the same years
SameYears(a, b) ==
    /\ {SpecLabel(a[i]) : i \in DOMAIN a} = {SpecLabel(b[i]) : i \in DOMAIN b}
    /\ \A i \in DOMAIN a, j \in DOMAIN b :
          SpecLabel(a[i]) = SpecLabel(b[j]) => a[i].years_experience = b[j].years_experience

\* C22: _merge_skills returns exactly one entry per case-insensitively
\* distinct non-blank label of the two lists, its years the maximum years
\* value of that label over both lists (a missing value counting as no value),
\* and the merged years do not depend on which list a value came from.
C22_MergedYearsAreMaximum ==
    IsMerge =>
        /\ SpecMerged(request.primary \o request.secondary, response.result)
        /\ SameYears(response.result, merge_skills(request.secondary, request.primary))

\* rows whose years are all numbers >= 0
NonNegativeYears(rows) ==
    \A i \in DOMAIN rows :
        /\ rows[i].years_experience # NULL
        /\ Val(rows[i].years_experience).t = "fin"
        /\ Val(rows[i].years_experience).num >= 0

\* the contract of C22 on rows whose years are numbers >= 0
C22_NonNegativeYears ==
    (IsMerge /\ NonNegativeYears(request.primary \o request.secondary)) =>
        /\ SpecMerged(request.primary \o request.secondary, response.result)
        /\ SameYears(response.result, merge_skills(request.secondary, request.primary))

\* two spellings of one label with different years have been merged
C22_NonNegativeWitness ==
    /\ IsMerge
    /\ request.primary = <<SkillRow(<<<<"B">>>>, <<Fin(0)>>)>>
    /\ request.secondary = <<SkillRow(<<<<"b", " ">>>>, <<Fin(3)>>)>>
    /\ response.result = <<SkillRow(<<<<"B">>>>, <<Fin(3)>>)>>

--------------------------------------------------------------------------
(* The two routes that start a ranking.  A value of the JSON body is NULL
   (absent or null), a string or a number. *)

JsonInt(v) == [t |-> "int", v |-> v]

\* bool(value): None, "" and 0 are falsy
truthy(value) ==
    /\ value # NULL
    /\ value.t = "str" => value.s # <<>>
    /\ value.t = "int" => value.v # 0

\* datetime.fromisoformat(value).date() on "yyyy-mm-dd" text: the date, or the
\* exception raised (days up to 31 in every month)
fromisoformat(value) ==
    IF value.t # "str" THEN [raised |-> "TypeError"]
    ELSE LET s == value.s
             shaped == /\ Len(s) = 10
                       /\ s[5] = "-" /\ s[8] = "-"
                       /\ IsDigits(SubSeq(s, 1, 4))
                       /\ IsDigits(SubSeq(s, 6, 7))
                       /\ IsDigits(SubSeq(s, 9, 10))
         IN  IF ~shaped THEN [raised |-> "ValueError"]
             ELSE LET year == DigitsValue(SubSeq(s, 1, 4))
                      month == DigitsValue(SubSeq(s, 6, 7))
                      day == DigitsValue(SubSeq(s, 9, 10))
                  IN  IF year >= 1 /\ month \in 1..12 /\ day \in 1..31
                      THEN [raised |-> "none",
                            date |-> [year |-> year, month |-> month, day |-> day]]
                      ELSE [raised |-> "ValueError"]

\* a > b on dates
date_gt(a, b) ==
    \/ a.year > b.year
    \/ a.year = b.year /\ a.month > b.month
    \/ a.year = b.year /\ a.month = b.month /\ a.day > b.day

\* n as a decimal numeral of the given width
RECURSIVE Padded(_, _)
Padded(n, width) ==
    IF width = 0 THEN <<>>
    ELSE Append(Padded(n \div 10, width - 1), Digits[(n % 10) + 1])

\* date.isoformat()
isoformat(date) ==
    Padded(date.year, 4) \o <<"-">> \o Padded(date.month, 2) \o <<"-">>
    \o Padded(date.day, 2)

HTTPException(status_code, detail) ==
    [raised |-> "HTTPException", status_code |-> status_code, detail |-> detail,
     calls |-> <<>>]

\* int(value) for a JSON value that is not None; NULL when it raises
int_of(value) ==
    IF value.t = "int" THEN <<value.v>>
    ELSE IF IsDigits(strip(value.s)) THEN <<DigitsValue(strip(value.s))>>
    ELSE NULL

\* the first exception of fromisoformat(start) then fromisoformat(end)
first_raised(start, end) == IF start.raised # "none" THEN start.raised ELSE end.raised

\* POST /recommend: recommend_task(data), with what the loader and the
\* embedding model give the ranking for that user.  The availability window is
\* the days of the month.
recommend_task(data, loaded, table) ==
    IF ~truthy(data.task_description)
    THEN HTTPException(400, "task_description is required")
    ELSE IF ~truthy(data.start_date) \/ ~truthy(data.end_date)
    THEN HTTPException(400, "start_date and end_date are required")
    ELSE IF data.user_id # NULL /\ int_of(data.user_id) = NULL
    THEN HTTPException(400, "user_id must be an integer")
    ELSE IF data.upload_id # NULL /\ int_of(data.upload_id) = NULL
    THEN HTTPException(400, "upload_id must be an integer")
    ELSE LET start_dt == fromisoformat(data.start_date)
             end_dt == fromisoformat(data.end_date)
             resolved_user_id == IF data.user_id = NULL THEN NULL ELSE int_of(data.user_id)
         IN  IF first_raised(start_dt, end_dt) = "ValueError"
             THEN HTTPException(400, "start_date and end_date must be valid ISO dates (yyyy-mm-dd)")
             ELSE IF first_raised(start_dt, end_dt) = "TypeError"
             THEN [raised |-> "TypeError", calls |-> <<>>]
             ELSE IF date_gt(start_dt.date, end_dt.date)
             THEN HTTPException(400, "start_date must be on or before end_date")
             ELSE LET done == generate_recommendations(
                                  resolved_user_id, data.task_description.s,
                                  loaded.employees, loaded.sims, loaded.cos, table,
                                  start_dt.date.day, end_dt.date.day)
                  IN  IF done.raised = "RecommendationError"
                      THEN HTTPException(done.status_code, done.message)
                      ELSE [passed |-> [start_date |-> isoformat(start_dt.date),
                                        end_date |-> isoformat(end_dt.date)]] @@ done

\* get_employee_recommendation_reason(user_id, task_description, start_date,
\* end_date) for the account and the employee record the database holds
get_employee_recommendation_reason(account, task_description, start_date, end_date, loaded, table) ==
    IF account.user = "missing" THEN HTTPException(404, "user not found")
    ELSE IF account.user # "employee"
    THEN HTTPException(403, "user is not an employee account")
    ELSE IF account.manager_user_id = NULL
    THEN HTTPException(404, "manager account not found")
    ELSE LET start_dt == fromisoformat(start_date)
             end_dt == fromisoformat(end_date)
         IN  IF first_raised(start_dt, end_dt) = "ValueError"
             THEN HTTPException(400, "start_date and end_date must be valid ISO dates")
             ELSE IF first_raised(start_dt, end_dt) = "TypeError"
             THEN [raised |-> "TypeError", calls |-> <<>>]
             ELSE IF date_gt(start_dt.date, end_dt.date)
             THEN HTTPException(400, "start_date must be on or before end_date")
             ELSE LET results == match_employees(task_description.s, loaded.employees,
                                                 loaded.sims, loaded.cos, table,
                                                 start_dt.date.day, end_dt.date.day)
                      dates == [passed |-> [start_date |-> isoformat(start_dt.date),
                                            end_date |-> isoformat(end_dt.date)]]
                  IN  IF results.raised # "none" THEN dates @@ results
                      ELSE IF results.returned = <<>>
                      THEN dates @@ [results EXCEPT !.returned =
                               [message |-> "no recommendations found for this task"]]
                      ELSE IF \A i \in DOMAIN results.returned :
                                  results.returned[i].employee_id # account.employee_id
                      THEN dates @@ [results EXCEPT !.returned =
                               [message |-> "employee not found in recommendations"]]
                      ELSE LET entry == results.returned[
                                   CHOOSE i \in DOMAIN results.returned :
                                       /\ results.returned[i].employee_id = account.employee_id
                                       /\ \A j \in 1..(i - 1) :
                                              results.returned[j].employee_id
                                                # account.employee_id]
                           IN  dates @@ [results EXCEPT !.returned =
                                   [employee_id |-> account.employee_id,
                                    reason |-> entry.reason,
                                    score_percent |-> entry.score_percent,
                                    availability_percent |-> entry.availability_percent,
                                    skills |-> entry.skills,
                                    learning_goals |-> entry.learning_goals]]

\* POST /employee/recommendation-reason: employee_recommendation_reason(payload)
employee_recommendation_reason(payload, account, loaded, table) ==
    IF ~truthy(payload.user_id) THEN HTTPException(400, "user_id is required")
    ELSE IF ~truthy(payload.task_description)
    THEN HTTPException(400, "task_description is required")
    ELSE IF ~truthy(payload.start_date) \/ ~truthy(payload.end_date)
    THEN HTTPException(400, "start_date and end_date are required")
    ELSE get_employee_recommendation_reason(account, payload.task_description,
                                            payload.start_date, payload.end_date,
                                            loaded, table)

RecommendTask ==
    /\ request.fn = "recommend"
    /\ response = None
    /\ response' = [op |-> "recommend_task",
                    result |-> recommend_task(request.data, request.loaded, assignments)]
    /\ UNCHANGED <<assignments, uploadEmployees, userSettings, request, assignmentHistory, DEFAULT_MODEL, instantiated, threads>>

EmployeeRecommendationReason ==
    /\ request.fn = "reason"
    /\ response = None
    /\ response' = [op |-> "employee_recommendation_reason",
                    result |-> employee_recommendation_reason(
                                   request.data, request.account, request.loaded,
                                   assignments)]
    /\ UNCHANGED <<assignments, uploadEmployees, userSettings, request, assignmentHistory, DEFAULT_MODEL, instantiated, threads>>

\* "2024-01-0d"
IsoDay(day) == <<"2", "0", "2", "4", "-", "0", "1", "-", "0", Digits[day + 1]>>

\* absent, empty, the days of the window as ISO text, a thirteenth month,
\* another date format, and a JSON number
DateValues ==
    {NULL, Str(<<>>), JsonInt(20240101),
     Str(<<"2", "0", "2", "4", "-", "1", "3", "-", "0", "1">>),
     Str(<<"1", "/", "2", "/", "2", "0", "2", "4">>)}
    \cup {Str(IsoDay(day)) : day \in Days}

TaskValues == {NULL, Str(<<>>), Str(<<"a">>)}

\* what fetch_employees_by_user and the embedding model give for the manager
Loaded(employees) ==
    [employees |-> employees,
     sims |-> [i \in DOMAIN employees |-> CHOOSE v \in Similarities : TRUE],
     cos |-> <<>>]

LoadedValues == {Loaded(<<>>), Loaded(<<Employee(1, NULL, 0, <<>>)>>)}

Accounts ==
    {[user |-> "missing"], [user |-> "manager"],
     [user |-> "employee", employee_id |-> 1, manager_user_id |-> NULL],
     [user |-> "employee", employee_id |-> 1, manager_user_id |-> <<1>>]}

InitRecommend ==
    /\ assignments = EmptyBag
    /\ uploadEmployees = {}
    /\ userSettings = NoSettings
    /\ Idle
    /\ \E task_description \in TaskValues, start_date \in DateValues,
          end_date \in DateValues, loaded \in LoadedValues :
          \/ \E user_id \in {NULL, JsonInt(1), Str(<<"x">>)}, upload_id \in {NULL, Str(<<"x">>)} :
                request = [fn |-> "recommend",
                           data |-> [task_description |-> task_description,
                                     upload_id |-> upload_id, user_id |-> user_id,
                                     start_date |-> start_date, end_date |-> end_date],
                           loaded |-> loaded]
          \/ \E user_id \in {NULL, JsonInt(0), JsonInt(2)}, account \in Accounts :
                request = [fn |-> "reason",
                           data |-> [user_id |-> user_id,
                                     task_description |-> task_description,
                                     start_date |-> start_date, end_date |-> end_date],
                           account |-> account, loaded |-> loaded]
    /\ response = None

NextRecommend == RecommendTask \/ EmployeeRecommendationReason \/ Return

SpecRecommend == InitRecommend /\ [][NextRecommend]_vars

--------------------------------------------------------------------------
(* The routes' contract *)

IsRoute == response.op \in {"recommend_task", "employee_recommendation_reason"}

\* the date a string spells, NULL when it spells none
SpecDate(value) ==
    IF value # NULL /\ value.t = "str" /\ fromisoformat(value).raised = "none"
    THEN <<fromisoformat(value).date>>
    ELSE NULL

\* a missing task description, a missing or unparsable date, or start > end
SpecBadRequest(data) ==
    \/ data.task_description = NULL \/ data.task_description.s = <<>>
    \/ SpecDate(data.start_date) = NULL
    \/ SpecDate(data.end_date) = NULL
    \/ date_gt(Val(SpecDate(data.start_date)), Val(SpecDate(data.end_date)))

\* rejected with a specific error, the ranking not invoked
SpecRejected(result) ==
    /\ result.raised = "HTTPException"
    /\ result.status_code \in {400, 403, 404}
    /\ result.calls = <<>>

\* C21: a ranking request with a missing task description, a missing or
\* unparsable start or end date, or start > end is rejected with a specific
\* error before match_employees is invoked, through both entry points; dates
\* that are accepted are passed on as given, never swapped.
C21_BadRequestIsRejected ==
    IsRoute =>
        /\ SpecBadRequest(request.data) => SpecRejected(response.result)
        /\ response.result.calls # <<>> =>
             /\ response.result.passed.start_date = request.data.start_date.s
             /\ response.result.passed.end_date = request.data.end_date.s

\* no date of the body is a JSON number
StringDates(data) ==
    /\ data.start_date # NULL => data.start_date.t = "str"
    /\ data.end_date # NULL => data.end_date.t = "str"

\* the contract of C21 on bodies whose dates are absent or strings
C21_StringDates ==
    (IsRoute /\ StringDates(request.data)) =>
        /\ SpecBadRequest(request.data) => SpecRejected(response.result)
        /\ response.result.calls # <<>> =>
             /\ response.result.passed.start_date = request.data.start_date.s
             /\ response.result.passed.end_date = request.data.end_date.s

\* an inverted range has been rejected by the employee's route
C21_StringDatesWitness ==
    /\ response.op = "employee_recommendation_reason"
    /\ request.account.user = "employee"
    /\ request.account.manager_user_id # NULL
    /\ request.data.start_date = Str(IsoDay(2))
    /\ request.data.end_date = Str(IsoDay(1))
    /\ response.result.raised = "HTTPException"
    /\ response.result.detail = "start_date must be on or before end_date"

--------------------------------------------------------------------------
(* C24: start_date <= end_date in every stored assignment *)

\* C24: in every state reachable through create_task_entry, update_task_entry,
\* assign_recommended_task, process_assignment_upload and process_upload,
\* every row of "Assignments" has start_date <= end_date.
\* process_upload stores a sheet row whose Start Date is after its End Date.
C24_StoredStartNotAfterEnd ==
    \A row \in BagToSet(assignments) : row.start_date <= row.end_date

\* C24, the writers that compare the dates: a step of any writer other than
\* process_upload adds no row with start_date > end_date
C24_CheckedWritersKeepOrder ==
    [][(response' # None /\ response'.op # "process_upload")
         => \A row \in BagToSet(assignments') :
               row.start_date > row.end_date => BagIn(row, assignments)]_vars

--------------------------------------------------------------------------
(* The assignment history: archive_completed_assignments, delete_task_entry *)
(* and _fetch_recent_workload_hours                                         *)

MaxLive == 2
WindowDays == 90
Today == 91

\* "Employees": employee 1 belongs to user 1, employee 2 to user 2
EmployeeUser(employee_id) == employee_id

Assignment(assignment_id, user_id, employee_id, title, start_date, end_date, total_hours, remaining_hours, priority) ==
    [assignment_id |-> assignment_id, user_id |-> user_id,
     employee_id |-> employee_id, title |-> title,
     start_date |-> start_date, end_date |-> end_date,
     total_hours |-> total_hours, remaining_hours |-> remaining_hours,
     priority |-> priority]

\* the SELECT list that copies an assignment into "AssignmentHistory"
HistoryRow(a) ==
    [user_id |-> a.user_id, employee_id |-> a.employee_id,
     source_assignment_id |-> a.assignment_id, title |-> a.title,
     start_date |-> a.start_date, end_date |-> a.end_date,
     total_hours |-> a.total_hours, remaining_hours |-> a.remaining_hours,
     priority |-> a.priority]

\* a.user_id = %s OR (a.user_id IS NULL AND e.user_id = %s), e the LEFT JOINed
\* employee of the assignment
owner_matches(a, user_id) ==
    \/ a.user_id = <<user_id>>
    \/ /\ a.user_id = NULL
       /\ a.employee_id # NULL
       /\ EmployeeUser(Val(a.employee_id)) = user_id

\* EXISTS (SELECT 1 FROM "AssignmentHistory" h WHERE h.source_assignment_id = a.assignment_id)
in_history(history, a) ==
    \E k \in 1..Len(history) : history[k].source_assignment_id = a.assignment_id

RECURSIVE rows_by_id(_, _)
rows_by_id(rows, assignment_id) ==
    IF assignment_id > MaxLive THEN <<>>
    ELSE LET here == {a \in rows : a.assignment_id = assignment_id}
         IN  (IF here = {} THEN <<>> ELSE <<HistoryRow(CHOOSE a \in here : TRUE)>>)
             \o rows_by_id(rows, assignment_id + 1)

\* the INSERT ... SELECT of archive_completed_assignments: the history rows it
\* adds, given the rows of both tables that the statement sees
archive_insert(live, history, user_id, cutoff) ==
    rows_by_id({a \in live : /\ owner_matches(a, user_id)
                             /\ a.end_date < cutoff
                             /\ ~in_history(history, a)}, 1)

\* the DELETE ... USING "Employees" e WHERE a.employee_id = e.employee_id ...:
\* the live rows it removes
archive_delete(live, history, user_id, cutoff) ==
    {a \in live : /\ a.employee_id # NULL
                  /\ owner_matches(a, user_id)
                  /\ a.end_date < cutoff
                  /\ in_history(history, a)}

\* COALESCE(total_hours, 0)
hours_or_zero(total_hours) == IF total_hours = NULL THEN 0 ELSE Val(total_hours)

RECURSIVE sum_hours(_)
sum_hours(rows) ==
    IF rows = <<>> THEN 0
    ELSE hours_or_zero(Head(rows).total_hours) + sum_hours(Tail(rows))

RECURSIVE SetToSeq(_)
SetToSeq(S) == IF S = {} THEN <<>>
               ELSE LET x == CHOOSE y \in S : TRUE IN <<x>> \o SetToSeq(S \ {x})

\* _fetch_recent_workload_hours(cur, employee_id, window_days)
fetch_recent_workload_hours(live, history, employee_id, window_days) ==
    LET recent(r) == /\ r.employee_id = <<employee_id>>
                     /\ r.end_date >= Today - window_days
        active_total == sum_hours(SetToSeq({a \in live : recent(a)}))
        history_total == sum_hours(SelectSeq(history, recent))
    IN  active_total + history_total

Workers == {1, 2}
IdleThread == [pc |-> "idle"]
Live == BagToSet(assignments)

\* archive_completed_assignments, first statement: the INSERT runs against the
\* committed tables; its rows stay private to the transaction until the commit
ArchiveInsert(w, user_id, as_of) ==
    /\ threads[w].pc = "idle"
    /\ LET cutoff == IF as_of = NULL THEN Today ELSE Val(as_of)
       IN  threads' = [threads EXCEPT ![w] =
                [pc |-> "inserted", user_id |-> user_id, cutoff |-> cutoff,
                 pending |-> archive_insert(Live, assignmentHistory, user_id, cutoff)]]
    /\ UNCHANGED <<assignments, uploadEmployees, userSettings, request, response, assignmentHistory, DEFAULT_MODEL, instantiated>>

\* archive_completed_assignments, second statement and commit: the DELETE sees
\* the committed history and the transaction's own inserted rows
ArchiveCommit(w) ==
    /\ response = None
    /\ threads[w].pc = "inserted"
    /\ LET t == threads[w]
           removed == archive_delete(Live, assignmentHistory \o t.pending,
                                     t.user_id, t.cutoff)
       IN  /\ assignments' = SetToBag(Live \ removed)
           /\ assignmentHistory' = assignmentHistory \o t.pending
           /\ response' = [op |-> "archive_completed_assignments",
                           user_id |-> t.user_id, as_of |-> t.cutoff,
                           before |-> Live, archived |-> Cardinality(removed)]
    /\ threads' = [threads EXCEPT ![w] = IdleThread]
    /\ UNCHANGED <<uploadEmployees, userSettings, request, DEFAULT_MODEL, instantiated>>

\* delete_task_entry(user_id, assignment_id)
DeleteTaskEntry(user_id, assignment_id) ==
    /\ response = None
    /\ LET found == {a \in Live : /\ a.assignment_id = assignment_id
                                  /\ owner_matches(a, user_id)}
       IN  IF found = {}
           THEN /\ response' = [op |-> "delete_task_entry", status |-> 404]
                /\ UNCHANGED <<assignments, assignmentHistory>>
           ELSE /\ assignmentHistory' = assignmentHistory \o rows_by_id(found, 1)
                /\ assignments' = SetToBag(Live \ found)
                /\ response' = [op |-> "delete_task_entry", status |-> 200,
                                message |-> "Task deleted"]
    /\ UNCHANGED <<uploadEmployees, userSettings, request, DEFAULT_MODEL, instantiated, threads>>

\* _fetch_recent_workload_hours(cur, employee_id) as fetch_employees_by_user calls it
FetchRecentWorkloadHours(employee_id) ==
    /\ response = None
    /\ response' = [op |-> "_fetch_recent_workload_hours",
                    employee_id |-> employee_id,
                    result |-> fetch_recent_workload_hours(Live, assignmentHistory,
                                                           employee_id, WindowDays)]
    /\ UNCHANGED <<assignments, uploadEmployees, userSettings, request, assignmentHistory, DEFAULT_MODEL, instantiated, threads>>

\* dates around the window: before it, its first day, today, tomorrow
HistoryDays == {Today - WindowDays - 1, Today - WindowDays, Today, Today + 1}

\* who an assignment belongs to: created by user 1 (with or without an
\* employee), or uploaded for an employee of user 1 or of user 2
Owners == {<<<<1>>, NULL>>, <<<<1>>, <<1>>>>, <<NULL, <<1>>>>, <<NULL, <<2>>>>}

StoredHours == {NULL, <<8>>, <<0 - 8>>}

StoredAssignment(assignment_id, owner, end_date, total_hours) ==
    Assignment(assignment_id, owner[1], owner[2], "task", end_date, end_date,
               total_hours, total_hours, NULL)

InitHistory ==
    /\ \E n \in 0..MaxLive :
       \E owner \in [1..n -> Owners], end_date \in [1..n -> HistoryDays],
          total_hours \in [1..n -> StoredHours] :
          assignments = SetToBag({StoredAssignment(k, owner[k], end_date[k],
                                                   total_hours[k]) : k \in 1..n})
    /\ uploadEmployees = {}
    /\ userSettings = NoSettings
    /\ request = NoRequest
    /\ response = None
    /\ assignmentHistory = <<>>
    /\ DEFAULT_MODEL = NULL
    /\ instantiated = 0
    /\ threads = [w \in Workers |-> IdleThread]

NextHistory ==
    \/ \E w \in Workers, user_id \in {1}, as_of \in {NULL, <<Today - WindowDays>>} :
          ArchiveInsert(w, user_id, as_of)
    \/ \E w \in Workers : ArchiveCommit(w)
    \/ \E user_id \in {1}, assignment_id \in 1..MaxLive :
          DeleteTaskEntry(user_id, assignment_id)
    \/ \E employee_id \in {1} : FetchRecentWorkloadHours(employee_id)
    \/ Return

SpecHistory == InitHistory /\ [][NextHistory]_vars

--------------------------------------------------------------------------
(* C23: what archive_completed_assignments leaves behind *)

IsArchive == response # None /\ response.op = "archive_completed_assignments"

\* owned directly via user_id, or via its employee when user_id is null
SpecOwned(a, user_id) ==
    IF a.user_id # NULL THEN Val(a.user_id) = user_id
    ELSE a.employee_id # NULL /\ EmployeeUser(Val(a.employee_id)) = user_id

\* the assignments of the user that were past their end date at the call
SpecCompleted ==
    {a \in response.before : SpecOwned(a, response.user_id) /\ a.end_date < response.as_of}

SpecHasHistoryRow(a) ==
    \E k \in 1..Len(assignmentHistory) :
        LET h == assignmentHistory[k]
        IN  /\ h.source_assignment_id = a.assignment_id
            /\ h.employee_id = a.employee_id
            /\ h.title = a.title
            /\ h.start_date = a.start_date
            /\ h.end_date = a.end_date
            /\ h.total_hours = a.total_hours
            /\ h.remaining_hours = a.remaining_hours
            /\ h.priority = a.priority

\* C23: after archive_completed_assignments(user, as_of) commits, no assignment
\* owned by the user with end_date < as_of remains in "Assignments", and each
\* such assignment has a history row pointing back to it with the same
\* employee, title, dates, hours and priority, with or without an employee.
\* An assignment without an employee is copied but never removed.
C23_CompletedAreArchivedAndRemoved ==
    IsArchive =>
        /\ \A a \in Live :
              ~(SpecOwned(a, response.user_id) /\ a.end_date < response.as_of)
        /\ \A a \in SpecCompleted : SpecHasHistoryRow(a)

\* C23 for the assignments that have an employee: they are removed and have
\* their history row
C23_AssignedAreArchivedAndRemoved ==
    IsArchive =>
        /\ \A a \in Live :
              ~(/\ a.employee_id # NULL
                /\ SpecOwned(a, response.user_id)
                /\ a.end_date < response.as_of)
        /\ \A a \in SpecCompleted : SpecHasHistoryRow(a)

C23_AssignedWitness ==
    /\ IsArchive
    /\ response.archived = 2
    /\ Live = {}
    /\ Len(assignmentHistory) = 2

--------------------------------------------------------------------------
(* C29: the history under interleavings of archive and delete *)

\* C29: under any sequence or interleaving of archive_completed_assignments
\* and delete_task_entry calls, "AssignmentHistory" holds at most one row per
\* source_assignment_id.
\* delete_task_entry copies an assignment that an earlier archive run already
\* copied and left live; two concurrent archive runs both copy the same rows.
C29_OneRowPerSource ==
    \A j, k \in 1..Len(assignmentHistory) :
        assignmentHistory[j].source_assignment_id
            = assignmentHistory[k].source_assignment_id => j = k

\* C29, second half: a history row once written is never updated or deleted
C29_HistoryIsAppendOnly ==
    [][/\ Len(assignmentHistory') >= Len(assignmentHistory)
       /\ SubSeq(assignmentHistory', 1, Len(assignmentHistory)) = assignmentHistory]_vars

--------------------------------------------------------------------------
(* C25: the recent workload of an employee *)

IsFetch == response # None /\ response.op = "_fetch_recent_workload_hours"

\* the end date lies within the lookback window of WindowDays days
SpecInWindow(end_date) == Today - WindowDays <= end_date /\ end_date <= Today

\* the hours of assignment id for the employee: the live row if there is one,
\* else an archived row of it, nulls as 0; 0 when neither ends in the window
SpecHoursOf(assignment_id, employee_id) ==
    LET live == {a \in Live : /\ a.assignment_id = assignment_id
                              /\ a.employee_id = <<employee_id>>
                              /\ SpecInWindow(a.end_date)}
        archived == {k \in 1..Len(assignmentHistory) :
                        /\ assignmentHistory[k].source_assignment_id = assignment_id
                        /\ assignmentHistory[k].employee_id = <<employee_id>>
                        /\ SpecInWindow(assignmentHistory[k].end_date)}
        hours(r) == IF r.total_hours = NULL THEN 0 ELSE Val(r.total_hours)
    IN  IF live # {} THEN hours(CHOOSE a \in live : TRUE)
        ELSE IF archived # {}
        THEN hours(assignmentHistory[CHOOSE k \in archived : \A j \in archived : k <= j])
        ELSE 0

RECURSIVE SpecWorkload(_, _)
SpecWorkload(assignment_id, employee_id) ==
    IF assignment_id > MaxLive THEN 0
    ELSE SpecHoursOf(assignment_id, employee_id)
            + SpecWorkload(assignment_id + 1, employee_id)

\* C25: _fetch_recent_workload_hours returns a value >= 0 equal to the sum of
\* total_hours (null as 0) over the employee's live assignments and archived
\* rows whose end date lies within the 90 day lookback window, each assignment
\* counted once.
\* The code has no upper end of the window, sums negative hours, and counts an
\* assignment once per history row.
C25_RecentWorkload ==
    IsFetch =>
        /\ response.result >= 0
        /\ response.result = SpecWorkload(1, response.employee_id)

\* the stored rows on which the code and the contract agree: no stored hours
\* below 0, no end date after today, one history row per assignment
C25_OrdinaryRows ==
    /\ \A a \in Live : a.end_date <= Today /\ hours_or_zero(a.total_hours) >= 0
    /\ \A k \in 1..Len(assignmentHistory) :
          /\ assignmentHistory[k].end_date <= Today
          /\ hours_or_zero(assignmentHistory[k].total_hours) >= 0
    /\ C29_OneRowPerSource

\* C25 on ordinary rows
C25_RecentWorkloadOfOrdinaryRows ==
    (IsFetch /\ C25_OrdinaryRows) =>
        /\ response.result >= 0
        /\ response.result = SpecWorkload(1, response.employee_id)

C25_OrdinaryWitness ==
    /\ IsFetch
    /\ C25_OrdinaryRows
    /\ response.result = 16
    /\ Len(assignmentHistory) = 1
    /\ Cardinality(Live) = 1

--------------------------------------------------------------------------
(* get_sentence_model: the lazily loaded embedding model.  The routes are  *)
(* plain "def" handlers, which FastAPI runs on a pool of worker threads,   *)
(* so several ranking requests can be inside get_sentence_model at once.   *)

MaxCalls == 2

\* a thread that is outside get_sentence_model, after calls calls of it
Outside(calls, returned) == [pc |-> "idle", calls |-> calls, returned |-> returned]

\* get_sentence_model is entered: "if _DEFAULT_MODEL is None" is evaluated
CheckModel(w) ==
    /\ threads[w].pc = "idle"
    /\ threads[w].calls < MaxCalls
    /\ threads' = [threads EXCEPT ![w].pc =
                      IF DEFAULT_MODEL = NULL THEN "construct" ELSE "return"]
    /\ UNCHANGED <<assignments, uploadEmployees, userSettings, request, response, assignmentHistory, DEFAULT_MODEL, instantiated>>

\* SentenceTransformer("all-MiniLM-L6-v2") and the store into _DEFAULT_MODEL
ConstructModel(w) ==
    /\ threads[w].pc = "construct"
    /\ instantiated' = instantiated + 1
    /\ DEFAULT_MODEL' = <<instantiated + 1>>
    /\ threads' = [threads EXCEPT ![w].pc = "return"]
    /\ UNCHANGED <<assignments, uploadEmployees, userSettings, request, response, assignmentHistory>>

\* return _DEFAULT_MODEL
ReturnModel(w) ==
    /\ threads[w].pc = "return"
    /\ threads' = [threads EXCEPT ![w] =
                      Outside(threads[w].calls + 1, Append(threads[w].returned, DEFAULT_MODEL))]
    /\ UNCHANGED <<assignments, uploadEmployees, userSettings, request, response, assignmentHistory, DEFAULT_MODEL, instantiated>>

Callers == {1, 2, 3}

InitModel ==
    /\ assignments = EmptyBag
    /\ uploadEmployees = {}
    /\ userSettings = NoSettings
    /\ request = NoRequest
    /\ response = None
    /\ assignmentHistory = <<>>
    /\ DEFAULT_MODEL = NULL
    /\ instantiated = 0
    /\ threads = [w \in Callers |-> Outside(0, <<>>)]

NextModel ==
    \/ \E w \in Callers : CheckModel(w)
    \/ \E w \in Callers : ConstructModel(w)
    \/ \E w \in Callers : ReturnModel(w)

SpecModel == InitModel /\ [][NextModel]_vars

--------------------------------------------------------------------------
(* C26: one embedding model per process *)

ReturnedModels == UNION {Range(threads[w].returned) : w \in Callers}

\* C26: for any number of get_sentence_model calls, concurrent first calls
\* included, SentenceTransformer is instantiated at most once and every call
\* returns that same instance.
\* Two first calls that both read _DEFAULT_MODEL as None both construct a model.
C26_ModelIsConstructedOnce ==
    /\ instantiated <= 1
    /\ Cardinality(ReturnedModels) <= 1

\* C26 for calls that do not overlap a constructing call: once a call has
\* returned, a call that starts later constructs nothing and returns the
\* instance stored at that time
C26_LaterCallsReuseTheModel ==
    [][\A w \in Callers :
          (threads[w].pc = "idle" /\ threads'[w].pc # "idle" /\ DEFAULT_MODEL # NULL)
              => threads'[w].pc = "return"]_vars

=============================================================================
